---- MODULE Spec2Model ----
(***************************************************************************)
(* Model of old_data/mysql_dump_to_sqlite.py: the comment stripper, the    *)
(* quote-aware statement splitter, the statement classifier/converter      *)
(* (with the CREATE TABLE rewrite) and the transactional loader.           *)
(*                                                                         *)
(* The state holds texts as strings; the operators work on a text as the   *)
(* sequence of its characters (S turns a string into that sequence, Str    *)
(* turns it back).  The lexer of the TLA+ tools rejects a grave accent     *)
(* inside a string literal, so the backtick is written ~ throughout: BT.   *)
(***************************************************************************)
EXTENDS Integers, Sequences, FiniteSets, TLC

VARIABLES
    sql_text,     \* split_sql_statements: the text being scanned
    pos,          \* split_sql_statements: number of characters consumed
    scan,         \* split_sql_statements: statements, current and the four flags
    spc,          \* split_sql_statements: "scan" | "returned" | "idle"
    shape,        \* convert_statement: how the argument was put together
    in_stmt,      \* convert_statement: the argument
    out_stmt,     \* convert_statement: the value returned
    cpc,          \* convert_statement: "call" | "returned" | "idle"
    args,         \* main: <<schemas, include_system_schemas>> parsed, <<>> without main
    existing,     \* what the file at sqlite_path held before the run
    raw_text,     \* import_dump: the content of the dump file
    include_schemas,         \* import_dump: the argument: is_none, names
    exclude_system_schemas,  \* import_dump: the argument
    statements,   \* import_dump: the statements of the dump
    index,        \* import_dump: the loop index (0 before the loop)
    use_db,       \* import_dump: the local of line 227
    converted,    \* import_dump: the local of line 233
    executed,     \* import_dump: the counter
    skipped,      \* import_dump: the counter
    active_schema,           \* import_dump: <<name>>, or <<>> for None
    conn,         \* the connection: open, in_transaction, foreign_keys, pending
    database,     \* the statements whose effects the database file holds
    journal,      \* what became of each statement: index, outcome, sql
    raised,       \* the error import_dump raised: index, active_schema, statement
    lpc,          \* import_dump: "start" | "loop" | "body" | "returned" | "raised" | "idle"
    strip_in,     \* strip_comment_lines: the argument
    strip_out,    \* strip_comment_lines: the value returned
    kpc,          \* strip_comment_lines: "call" | "returned" | "idle"
    options,      \* import_chiamogna: the source path, consorzio_name, no_reset
    legacy,       \* the source database: persone_rows, giro_rows, ruolo_rows
    tables,       \* the Django database: persona, giro, turno, tp rows, next pk
    locals,       \* handle: its maps, the two loop positions, the error raised
    hpc           \* handle: "handle" | "transaction" | "base" | "giro_rows" |
                  \* "ruolo_rows" | "report" | "done" | "raised"; "models" | "idle"

splitVars == <<sql_text, pos, scan, spc>>

convertVars == <<shape, in_stmt, out_stmt, cpc>>

loadVars == <<args, existing, raw_text, include_schemas, exclude_system_schemas, statements, index,
              use_db, converted, executed, skipped, active_schema, conn, database, journal, raised, lpc>>

stripVars == <<strip_in, strip_out, kpc>>

djangoVars == <<options, legacy, tables, locals, hpc>>

vars == <<splitVars, convertVars, loadVars, stripVars, djangoVars>>

\* what the steps of one function leave alone: the state of the others
othersOfSplit == <<convertVars, loadVars, stripVars, djangoVars>>

othersOfConvert == <<splitVars, loadVars, stripVars, djangoVars>>

othersOfLoad == <<splitVars, convertVars, stripVars, djangoVars>>

othersOfStrip == <<splitVars, convertVars, loadVars, djangoVars>>

othersOfDjango == <<splitVars, convertVars, loadVars, stripVars>>

----------------------------------------------------------------------------
(* Characters and strings *)

BT == "~"

\* the characters of a string
S(str) == [i \in 1..Len(str) |-> SubSeq(str, i, i)]

\* the string of a sequence of characters
RECURSIVE Str(_)
Str(s) ==
    IF s = <<>> THEN ""
    ELSE IF Len(s) = 1 THEN s[1]
    ELSE LET h == Len(s) \div 2
         IN  Str(SubSeq(s, 1, h)) \o Str(SubSeq(s, h + 1, Len(s)))

LowerSeq == S("abcdefghijklmnopqrstuvwxyz")
UpperSeq == S("ABCDEFGHIJKLMNOPQRSTUVWXYZ")
DigitSet == {"0", "1", "2", "3", "4", "5", "6", "7", "8", "9"}
LowerSet == {LowerSeq[i] : i \in 1..26}
UpperSet == {UpperSeq[i] : i \in 1..26}

UpperOf == [c \in LowerSet |-> UpperSeq[CHOOSE i \in 1..26 : LowerSeq[i] = c]]

\* str.upper() on one character
UpperChar(c) == IF c \in LowerSet THEN UpperOf[c] ELSE c

\* str.upper()
Upper(s) == [i \in 1..Len(s) |-> UpperChar(s[i])]

\* str.isspace() / the regex class \s
IsSpace(c) == c \in {" ", "\t", "\n", "\r", "\f"}

\* the regex class \w
IsWord(c) == c \in LowerSet \/ c \in UpperSet \/ c \in DigitSet \/ c = "_"

\* the regex class \d
IsDigit(c) == c \in DigitSet

\* str.strip()
Strip(s) ==
    LET keep == {i \in 1..Len(s) : ~IsSpace(s[i])}
    IN  IF keep = {} THEN <<>>
        ELSE SubSeq(s, CHOOSE i \in keep : \A j \in keep : i <= j,
                       CHOOSE i \in keep : \A j \in keep : j <= i)

\* str.rstrip(";")
RStripSemi(s) ==
    LET keep == {i \in 1..Len(s) : s[i] # ";"}
    IN  IF keep = {} THEN <<>>
        ELSE SubSeq(s, 1, CHOOSE i \in keep : \A j \in keep : j <= i)

\* str.startswith(p)
StartsWith(s, p) == Len(s) >= Len(p) /\ SubSeq(s, 1, Len(p)) = p

\* str.endswith(p)
EndsWith(s, p) == Len(s) >= Len(p) /\ SubSeq(s, Len(s) - Len(p) + 1, Len(s)) = p

\* str.replace(BT, '"')
ReplaceBackticks(s) == [i \in 1..Len(s) |-> IF s[i] = BT THEN "\"" ELSE s[i]]

----------------------------------------------------------------------------
(* Regular expressions of the converter.  A matcher gives, for a start     *)
(* position i of s, the position just after the match, or 0 for no match;  *)
(* ReSub is re.sub: leftmost non-overlapping matches, left to right.       *)

IsWordAt(s, i) == i >= 1 /\ i <= Len(s) /\ IsWord(s[i])

\* \b at the position before s[i]
WordBoundary(s, i) == IsWordAt(s, i - 1) # IsWordAt(s, i)

\* a literal under re.IGNORECASE; lit is given in upper case
MatchLit(s, i, lit) ==
    /\ i >= 1
    /\ i + Len(lit) - 1 <= Len(s)
    /\ \A k \in 1..Len(lit) : UpperChar(s[i + k - 1]) = lit[k]

\* \s* from position i: the first position that holds no whitespace
SkipSpaces(s, i) ==
    LET stop == {j \in i..Len(s) : ~IsSpace(s[j])}
    IN  IF stop = {} THEN Len(s) + 1 ELSE CHOOSE j \in stop : \A k \in stop : j <= k

\* \d* from position i
SkipDigits(s, i) ==
    LET stop == {j \in i..Len(s) : ~IsDigit(s[j])}
    IN  IF stop = {} THEN Len(s) + 1 ELSE CHOOSE j \in stop : \A k \in stop : j <= k

\* \bword\b
MatchWord(s, i, lit) ==
    IF WordBoundary(s, i) /\ MatchLit(s, i, lit) /\ WordBoundary(s, i + Len(lit))
    THEN i + Len(lit) ELSE 0

\* (?:[^)(]|\([^)(]*\))*\)  from position k: characters other than
\* parentheses and one-level parenthesised groups, then the closing one
RECURSIVE MatchParenBody(_, _)
MatchParenBody(s, k) ==
    LET parens == {j \in k..Len(s) : s[j] \in {"(", ")"}}
        p      == CHOOSE j \in parens : \A m \in parens : j <= m
        inner  == {j \in (p + 1)..Len(s) : s[j] \in {"(", ")"}}
        close  == CHOOSE j \in inner : \A m \in inner : j <= m
    IN  IF parens = {} THEN 0
        ELSE IF s[p] = ")" THEN p + 1
        ELSE IF inner # {} /\ s[close] = ")" THEN MatchParenBody(s, close + 1)
        ELSE 0

\* \bword\s*\((?:[^)(]|\([^)(]*\))*\)
MatchParenType(s, i, lit) ==
    IF WordBoundary(s, i) /\ MatchLit(s, i, lit)
    THEN LET open == SkipSpaces(s, i + Len(lit))
         IN  IF open <= Len(s) /\ s[open] = "(" THEN MatchParenBody(s, open + 1) ELSE 0
    ELSE 0

\* \bword\s*\(\s*\d+\s*\)
MatchIntWidth(s, i, lit) ==
    IF WordBoundary(s, i) /\ MatchLit(s, i, lit)
    THEN LET open   == SkipSpaces(s, i + Len(lit))
             digits == SkipSpaces(s, open + 1)
             after  == SkipDigits(s, digits)
             close  == SkipSpaces(s, after)
         IN  IF /\ open <= Len(s) /\ s[open] = "("
                /\ after > digits
                /\ close <= Len(s) /\ s[close] = ")"
             THEN close + 1 ELSE 0
    ELSE 0

AUTO_INCREMENT == S("AUTO_INCREMENT")

\* \bAUTO_INCREMENT\s*=\s*\d+\b
MatchAutoIncrementOption(s, i) ==
    IF WordBoundary(s, i) /\ MatchLit(s, i, AUTO_INCREMENT)
    THEN LET eq     == SkipSpaces(s, i + Len(AUTO_INCREMENT))
             digits == SkipSpaces(s, eq + 1)
             after  == SkipDigits(s, digits)
         IN  IF /\ eq <= Len(s) /\ s[eq] = "="
                /\ after > digits
                /\ WordBoundary(s, after)
             THEN after ELSE 0
    ELSE 0

\* \s+AUTO_INCREMENT\b
MatchAutoIncrementInline(s, i) ==
    IF IsSpace(s[i])
    THEN LET word == SkipSpaces(s, i)
         IN  IF MatchLit(s, word, AUTO_INCREMENT)
                /\ WordBoundary(s, word + Len(AUTO_INCREMENT))
             THEN word + Len(AUTO_INCREMENT) ELSE 0
    ELSE 0

\* re.sub with the matches given as ends[i]; empty matches do not occur.
\* The text up to the leftmost match at or after i is copied, the match is
\* replaced, and the search goes on after the match.
RECURSIVE ReSubFrom(_, _, _, _)
ReSubFrom(s, ends, repl, i) ==
    LET starts == {j \in i..Len(s) : ends[j] > 0}
        m      == CHOOSE j \in starts : \A k \in starts : j <= k
    IN  IF starts = {} THEN SubSeq(s, i, Len(s))
        ELSE SubSeq(s, i, m - 1) \o repl \o ReSubFrom(s, ends, repl, ends[m])

SubAutoIncrementOption(s) ==
    ReSubFrom(s, [i \in 1..Len(s) |-> MatchAutoIncrementOption(s, i)], <<>>, 1)

SubAutoIncrementInline(s) ==
    ReSubFrom(s, [i \in 1..Len(s) |-> MatchAutoIncrementInline(s, i)], <<>>, 1)

SubWord(s, lit, repl) ==
    ReSubFrom(s, [i \in 1..Len(s) |-> MatchWord(s, i, lit)], repl, 1)

SubParenType(s, lit, repl) ==
    ReSubFrom(s, [i \in 1..Len(s) |-> MatchParenType(s, i, lit)], repl, 1)

SubIntWidth(s, lit, repl) ==
    ReSubFrom(s, [i \in 1..Len(s) |-> MatchIntWidth(s, i, lit)], repl, 1)

----------------------------------------------------------------------------
(* normalize_types *)

\* normalize_types without line 123 (bigint keeps its display width)
normalize_types_no_bigint(stmt) ==
    LET s1  == SubWord(stmt, S("UNSIGNED"), <<>>)
        s2  == SubWord(s1, S("ZEROFILL"), <<>>)
        s3  == SubParenType(s2, S("ENUM"), S("TEXT"))
        s4  == SubParenType(s3, S("SET"), S("TEXT"))
        s5  == SubIntWidth(s4, S("TINYINT"), S("INTEGER"))
        s6  == SubIntWidth(s5, S("SMALLINT"), S("INTEGER"))
        s7  == SubIntWidth(s6, S("MEDIUMINT"), S("INTEGER"))
        s8  == SubIntWidth(s7, S("INT"), S("INTEGER"))
        s9  == SubIntWidth(s8, S("INTEGER"), S("INTEGER"))
        s11 == SubWord(s9, S("DOUBLE"), S("REAL"))
        s12 == SubWord(s11, S("FLOAT"), S("REAL"))
    IN  s12

normalize_types(stmt) ==
    LET s1  == SubWord(stmt, S("UNSIGNED"), <<>>)
        s2  == SubWord(s1, S("ZEROFILL"), <<>>)
        s3  == SubParenType(s2, S("ENUM"), S("TEXT"))
        s4  == SubParenType(s3, S("SET"), S("TEXT"))
        s5  == SubIntWidth(s4, S("TINYINT"), S("INTEGER"))
        s6  == SubIntWidth(s5, S("SMALLINT"), S("INTEGER"))
        s7  == SubIntWidth(s6, S("MEDIUMINT"), S("INTEGER"))
        s8  == SubIntWidth(s7, S("INT"), S("INTEGER"))
        s9  == SubIntWidth(s8, S("INTEGER"), S("INTEGER"))
        s10 == SubIntWidth(s9, S("BIGINT"), S("INTEGER"))
        s11 == SubWord(s10, S("DOUBLE"), S("REAL"))
        s12 == SubWord(s11, S("FLOAT"), S("REAL"))
    IN  s12

----------------------------------------------------------------------------
(* convert_create_table *)

LineBreaks == {"\n", "\r", "\f"}

\* str.splitlines()
RECURSIVE SplitLinesFrom(_, _)
SplitLinesFrom(s, i) ==
    IF i > Len(s) THEN <<>>
    ELSE LET breaks == {j \in i..Len(s) : s[j] \in LineBreaks}
             b      == CHOOSE j \in breaks : \A k \in breaks : j <= k
         IN  IF breaks = {} THEN <<SubSeq(s, i, Len(s))>>
             ELSE <<SubSeq(s, i, b - 1)>> \o
                  SplitLinesFrom(s, IF s[b] = "\r" /\ b < Len(s) /\ s[b + 1] = "\n"
                                    THEN b + 2 ELSE b + 1)

SplitLines(s) == SplitLinesFrom(s, 1)

\* "\n".join(lines)
RECURSIVE JoinLines(_)
JoinLines(lines) ==
    IF lines = <<>> THEN <<>>
    ELSE IF Len(lines) = 1 THEN lines[1]
    ELSE lines[1] \o <<"\n">> \o JoinLines(Tail(lines))

\* re.match(r'^<keywords>\s+"[^"]+"\s*\((.+)\)\s*,?$', stripped): the span of
\* group 1 as <<first, last>>, or <<>> for no match.  keywords is <<"UNIQUE",
\* "KEY">> or <<"KEY">>; stripped carries no whitespace at its ends.
RECURSIVE SkipKeywords(_, _, _)
SkipKeywords(s, i, keywords) ==
    IF keywords = <<>> THEN i
    ELSE LET next == SkipSpaces(s, i + Len(keywords[1]))
         IN  IF i > 0 /\ MatchLit(s, i, keywords[1]) /\ next > i + Len(keywords[1])
             THEN SkipKeywords(s, next, Tail(keywords)) ELSE 0

KeyLineGroup(stripped, keywords) ==
    LET n      == Len(stripped)
        q1     == SkipKeywords(stripped, 1, keywords)
        quotes == {j \in (q1 + 1)..n : stripped[j] = "\""}
        q2     == CHOOSE j \in quotes : \A k \in quotes : j <= k
        open   == SkipSpaces(stripped, q2 + 1)
        beforeComma == {j \in 1..(n - 1) : ~IsSpace(stripped[j])}
        close  == IF stripped[n] = "," /\ beforeComma # {}
                  THEN CHOOSE j \in beforeComma : \A k \in beforeComma : k <= j
                  ELSE n
    IN  IF /\ q1 > 0 /\ q1 <= n /\ stripped[q1] = "\""
           /\ quotes # {} /\ q2 > q1 + 1
           /\ open <= n /\ stripped[open] = "("
           /\ stripped[close] = ")"
           /\ close >= open + 2
        THEN <<open + 1, close - 1>>
        ELSE <<>>

\* the body of the loop over lines: the lines that replace one line
ConvertLine(line) ==
    LET stripped == Strip(line)
        unique_match    == KeyLineGroup(stripped, <<S("UNIQUE"), S("KEY")>>)
        plain_key_match == KeyLineGroup(stripped, <<S("KEY")>>)
        suffix == IF EndsWith(stripped, S(",")) THEN S(",") ELSE <<>>
    IN  IF stripped # <<>> /\ unique_match # <<>>
        THEN <<S("  UNIQUE (") \o SubSeq(stripped, unique_match[1], unique_match[2])
                 \o S(")") \o suffix>>
        ELSE IF stripped # <<>> /\ plain_key_match # <<>>
        THEN <<>>
        ELSE <<line>>

RECURSIVE ConvertLines(_)
ConvertLines(lines) ==
    IF lines = <<>> THEN <<>>
    ELSE ConvertLine(lines[1]) \o ConvertLines(Tail(lines))

TableOptionWords ==
    {S("ENGINE"), S("TYPE"), S("DEFAULT"), AUTO_INCREMENT, S("CHARSET"), S("COLLATE")}

\* re.sub(r"\)\s*(?:ENGINE|TYPE|DEFAULT|AUTO_INCREMENT|CHARSET|COLLATE)\b.*$",
\*        ")", stmt, flags=IGNORECASE | DOTALL)
StripTableOptions(s) ==
    LET hits == {i \in 1..Len(s) :
                   /\ s[i] = ")"
                   /\ \E w \in TableOptionWords :
                        LET j == SkipSpaces(s, i + 1)
                        IN  MatchLit(s, j, w) /\ WordBoundary(s, j + Len(w))}
    IN  IF hits = {} THEN s
        ELSE SubSeq(s, 1, (CHOOSE i \in hits : \A k \in hits : i <= k) - 1) \o S(")")

\* step 9 left out
StripDanglingCommaNever(s) == s

\* re.sub(r",\s*\)\s*$", ")", stmt, flags=DOTALL)
StripDanglingComma(s) ==
    LET hits == {i \in 1..Len(s) :
                   /\ s[i] = ","
                   /\ LET j == SkipSpaces(s, i + 1)
                      IN  j <= Len(s) /\ s[j] = ")" /\ SkipSpaces(s, j + 1) = Len(s) + 1}
    IN  IF hits = {} THEN s
        ELSE SubSeq(s, 1, (CHOOSE i \in hits : \A k \in hits : i <= k) - 1) \o S(")")

convert_create_table(stmt) ==
    LET s1 == ReplaceBackticks(stmt)
        s2 == normalize_types(s1)
        s3 == SubAutoIncrementOption(s2)
        s4 == SubAutoIncrementInline(s3)
        s5 == JoinLines(ConvertLines(SplitLines(s4)))
        s6 == StripTableOptions(s5)
    IN  StripDanglingComma(s6)

----------------------------------------------------------------------------
(* convert_statement and extract_use_database *)

\* Python's None as a value of the operators: no text equals it
None == <<"None">>

IGNORED_PREFIXES ==
    <<S("SET "), S("LOCK TABLES"), S("UNLOCK TABLES"), S("DELIMITER"),
      S("START TRANSACTION"), S("COMMIT"), S("ROLLBACK"),
      S("CREATE DATABASE"), S("DROP DATABASE")>>

\* convert_statement looking at the text as written (upper = stripped)
convert_statement_as_written(stmt) ==
    LET stripped == Strip(RStripSemi(Strip(stmt)))
        upper    == stripped
    IN  IF StartsWith(upper, S("/*!")) THEN None
        ELSE IF \E k \in 1..Len(IGNORED_PREFIXES) : StartsWith(upper, IGNORED_PREFIXES[k])
        THEN None
        ELSE IF StartsWith(upper, S("USE ")) THEN stripped
        ELSE IF \/ StartsWith(upper, S("CREATE TABLE"))
                \/ StartsWith(upper, S("CREATE TEMPORARY TABLE"))
        THEN convert_create_table(stripped)
        ELSE IF StartsWith(upper, S("INSERT INTO")) THEN ReplaceBackticks(stripped)
        ELSE IF StartsWith(upper, S("DROP TABLE")) THEN ReplaceBackticks(stripped)
        ELSE IF StartsWith(upper, S("ALTER TABLE")) THEN None
        ELSE ReplaceBackticks(stripped)

convert_statement(stmt) ==
    LET stripped == Strip(RStripSemi(Strip(stmt)))
        upper    == Upper(stripped)
    IN  IF StartsWith(upper, S("/*!")) THEN None
        ELSE IF \E k \in 1..Len(IGNORED_PREFIXES) : StartsWith(upper, IGNORED_PREFIXES[k])
        THEN None
        ELSE IF StartsWith(upper, S("USE ")) THEN stripped
        ELSE IF \/ StartsWith(upper, S("CREATE TABLE"))
                \/ StartsWith(upper, S("CREATE TEMPORARY TABLE"))
        THEN convert_create_table(stripped)
        ELSE IF StartsWith(upper, S("INSERT INTO")) THEN ReplaceBackticks(stripped)
        ELSE IF StartsWith(upper, S("DROP TABLE")) THEN ReplaceBackticks(stripped)
        ELSE IF StartsWith(upper, S("ALTER TABLE")) THEN None
        ELSE ReplaceBackticks(stripped)

\* re.match(r'^USE\s+[BT"]?([^BT";\s]+)[BT"]?\s*;?$', stmt, IGNORECASE):
\* group 1, or None
extract_use_database(stmt) ==
    LET n     == Len(stmt)
        sp    == SkipSpaces(stmt, 4)
        first == IF sp <= n /\ stmt[sp] \in {BT, "\""} THEN sp + 1 ELSE sp
        stop  == {j \in first..n : stmt[j] \in {BT, "\"", ";"} \/ IsSpace(stmt[j])}
        after == IF stop = {} THEN n + 1 ELSE CHOOSE j \in stop : \A k \in stop : j <= k
        quote == IF after <= n /\ stmt[after] \in {BT, "\""} THEN after + 1 ELSE after
        semi  == SkipSpaces(stmt, quote)
        end   == IF semi <= n /\ stmt[semi] = ";" THEN semi + 1 ELSE semi
    IN  IF /\ MatchLit(stmt, 1, S("USE"))
           /\ sp > 4
           /\ after > first
           /\ end = n + 1
        THEN SubSeq(stmt, first, after - 1)
        ELSE None

----------------------------------------------------------------------------
(* split_sql_statements *)

StripStr(str) == Str(Strip(S(str)))

ScanInit == [statements |-> <<>>, current |-> "",
             in_single |-> FALSE, in_double |-> FALSE,
             in_backtick |-> FALSE, escape |-> FALSE]

\* CloseStatement with the statement taken without the first character
\* read since the split point before it
CloseStatementLosingFirst(st) ==
    LET statement == StripStr(SubSeq(st.current, 2, Len(st.current)))
    IN  [st EXCEPT !.statements = IF statement # "" THEN Append(@, statement) ELSE @,
                   !.current = ""]

\* the semicolon branch: close the current statement, drop it when empty
CloseStatement(st) ==
    LET statement == StripStr(st.current)
    IN  [st EXCEPT !.statements = IF statement # "" THEN Append(@, statement) ELSE @,
                   !.current = ""]

\* ScanStep without the double-quote branches (lines 57-60 and 71-73 left out)
ScanStepNoDouble(st0, ch) ==
    LET st == [st0 EXCEPT !.current = @ \o ch]
    IN  IF st.escape THEN [st EXCEPT !.escape = FALSE]
        ELSE IF ch = "\\" THEN [st EXCEPT !.escape = TRUE]
        ELSE IF st.in_single
             THEN IF ch = "'" THEN [st EXCEPT !.in_single = FALSE] ELSE st
        ELSE IF st.in_backtick
             THEN IF ch = BT THEN [st EXCEPT !.in_backtick = FALSE] ELSE st
        ELSE IF ch = "'" THEN [st EXCEPT !.in_single = TRUE]
        ELSE IF ch = BT THEN [st EXCEPT !.in_backtick = TRUE]
        ELSE IF ch = ";" THEN CloseStatement(st)
        ELSE st

\* ScanStep without the escape flag (lines 44-50 left out)
ScanStepNoEscape(st0, ch) ==
    LET st == [st0 EXCEPT !.current = @ \o ch]
    IN  IF st.in_single
        THEN IF ch = "'" THEN [st EXCEPT !.in_single = FALSE] ELSE st
        ELSE IF st.in_double
             THEN IF ch = "\"" THEN [st EXCEPT !.in_double = FALSE] ELSE st
        ELSE IF st.in_backtick
             THEN IF ch = BT THEN [st EXCEPT !.in_backtick = FALSE] ELSE st
        ELSE IF ch = "'" THEN [st EXCEPT !.in_single = TRUE]
        ELSE IF ch = "\"" THEN [st EXCEPT !.in_double = TRUE]
        ELSE IF ch = BT THEN [st EXCEPT !.in_backtick = TRUE]
        ELSE IF ch = ";" THEN CloseStatement(st)
        ELSE st

\* ScanStep with the escape flag honoured only inside a quoting mode
ScanStepEscapeQuotedOnly(st0, ch) ==
    LET st == [st0 EXCEPT !.current = @ \o ch]
        quoted == st.in_single \/ st.in_double \/ st.in_backtick
    IN  IF st.escape THEN [st EXCEPT !.escape = FALSE]
        ELSE IF ch = "\\" /\ quoted THEN [st EXCEPT !.escape = TRUE]
        ELSE IF st.in_single
             THEN IF ch = "'" THEN [st EXCEPT !.in_single = FALSE] ELSE st
        ELSE IF st.in_double
             THEN IF ch = "\"" THEN [st EXCEPT !.in_double = FALSE] ELSE st
        ELSE IF st.in_backtick
             THEN IF ch = BT THEN [st EXCEPT !.in_backtick = FALSE] ELSE st
        ELSE IF ch = "'" THEN [st EXCEPT !.in_single = TRUE]
        ELSE IF ch = "\"" THEN [st EXCEPT !.in_double = TRUE]
        ELSE IF ch = BT THEN [st EXCEPT !.in_backtick = TRUE]
        ELSE IF ch = ";" THEN CloseStatement(st)
        ELSE st

\* ScanStep with the three quote tests taken one after the other and not
\* as alternatives: a quote of another kind opens its mode inside a region
ScanStepNestedQuotes(st0, ch) ==
    LET st == [st0 EXCEPT !.current = @ \o ch]
    IN  IF st.escape THEN [st EXCEPT !.escape = FALSE]
        ELSE IF ch = "\\" THEN [st EXCEPT !.escape = TRUE]
        ELSE IF ch = "'" THEN [st EXCEPT !.in_single = ~@]
        ELSE IF ch = "\"" THEN [st EXCEPT !.in_double = ~@]
        ELSE IF ch = BT THEN [st EXCEPT !.in_backtick = ~@]
        ELSE IF ch = ";" /\ ~st.in_single /\ ~st.in_double /\ ~st.in_backtick
             THEN CloseStatement(st)
        ELSE st

\* one iteration of the for loop, on character ch
ScanStep(st0, ch) ==
    LET st == [st0 EXCEPT !.current = @ \o ch]
    IN  IF st.escape THEN [st EXCEPT !.escape = FALSE]
        ELSE IF ch = "\\" THEN [st EXCEPT !.escape = TRUE]
        ELSE IF st.in_single
             THEN IF ch = "'" THEN [st EXCEPT !.in_single = FALSE] ELSE st
        ELSE IF st.in_double
             THEN IF ch = "\"" THEN [st EXCEPT !.in_double = FALSE] ELSE st
        ELSE IF st.in_backtick
             THEN IF ch = BT THEN [st EXCEPT !.in_backtick = FALSE] ELSE st
        ELSE IF ch = "'" THEN [st EXCEPT !.in_single = TRUE]
        ELSE IF ch = "\"" THEN [st EXCEPT !.in_double = TRUE]
        ELSE IF ch = BT THEN [st EXCEPT !.in_backtick = TRUE]
        ELSE IF ch = ";" THEN CloseStatement(st)
        ELSE st

\* ScanFinish without lines 85-87: the leftover is not emitted
ScanFinishNoLeftover(st) == st.statements

\* the code after the loop: the leftover becomes one final statement
ScanFinish(st) ==
    LET leftover == StripStr(st.current)
    IN  IF leftover # "" THEN Append(st.statements, leftover) ELSE st.statements

\* the for loop over the characters lo..hi of text: ScanStep taken character
\* by character.  The range is halved, and the record the first half leaves
\* is bound as a value (left) before the second half is entered, so that no
\* step is evaluated more than once.
RECURSIVE ScanRange(_, _, _, _)
ScanRange(st, text, lo, hi) ==
    IF lo > hi THEN st
    ELSE IF lo = hi THEN ScanStep(st, SubSeq(text, lo, lo))
    ELSE LET mid == (lo + hi) \div 2
         IN  CHOOSE after \in {ScanRange(left, text, mid + 1, hi) :
                                  left \in {ScanRange(st, text, lo, mid)}} : TRUE

\* the whole function, on a string
split_sql_statements(text) == ScanFinish(ScanRange(ScanInit, text, 1, Len(text)))

----------------------------------------------------------------------------
(* strip_comment_lines *)

KeepLine(line) ==
    LET stripped == Strip(line)
    IN  \/ stripped = <<>>
        \/ /\ ~StartsWith(stripped, S("--"))
           /\ ~StartsWith(stripped, S("#"))
           /\ ~(StartsWith(stripped, S("/*!")) /\ EndsWith(stripped, S("*/;")))

RECURSIVE KeptLines(_)
KeptLines(lines) ==
    IF lines = <<>> THEN <<>>
    ELSE (IF KeepLine(lines[1]) THEN <<lines[1]>> ELSE <<>>) \o KeptLines(Tail(lines))

\* the whole function, on a string
strip_comment_lines(text) == Str(JoinLines(KeptLines(SplitLines(S(text)))))

----------------------------------------------------------------------------
(* The splitter as a machine: one step per character of the text *)

MaxLen == 5

Alphabet == {"a", ";", "'", "\"", BT, "\\", " "}

AllTexts == {Str(cs) : cs \in UNION {[1..k -> Alphabet] : k \in 0..MaxLen}}

ExampleInsert == "INSERT INTO t VALUES ('a;b', \"c;d\");"

SplitInputs == AllTexts \cup {ExampleInsert, "a;;b;", "~a;~ 'b\\';' c"}

SplitIdle == sql_text = "" /\ pos = 0 /\ scan = ScanInit /\ spc = "idle"

ConvertIdle ==
    shape = [kind |-> "none"] /\ in_stmt = "" /\ out_stmt = "" /\ cpc = "idle"

LoadIdle ==
    /\ args = <<>> /\ existing = <<>>
    /\ raw_text = "" /\ include_schemas = [is_none |-> TRUE, names |-> {}]
    /\ exclude_system_schemas = FALSE
    /\ statements = <<>> /\ index = 0 /\ use_db = <<>> /\ converted = <<>>
    /\ executed = 0 /\ skipped = 0
    /\ active_schema = <<>>
    /\ conn = [open |-> FALSE, in_transaction |-> FALSE, foreign_keys |-> "default",
               pending |-> <<>>]
    /\ database = <<>> /\ journal = <<>> /\ raised = <<>> /\ lpc = "idle"

StripIdle == strip_in = "" /\ strip_out = "" /\ kpc = "idle"

NoTables == [persona |-> {}, giro |-> {}, turno |-> {}, tp |-> {}, next |-> 1]

NoLocals ==
    [legacy_persona_to_new |-> <<>>, giro_map |-> <<>>, used_ordini_by_giro |-> <<>>,
     legacy_giro_to_turno |-> <<>>, giro_pos |-> 0, ruolo_pos |-> 0,
     before |-> NoTables, error |-> ""]

NoRows == [persone_rows |-> {}, giro_rows |-> <<>>, ruolo_rows |-> <<>>]

DjangoIdle ==
    /\ options = [source_exists |-> FALSE, source_is_file |-> FALSE,
                  consorzio_name |-> "", no_reset |-> FALSE]
    /\ legacy = NoRows /\ tables = NoTables /\ locals = NoLocals /\ hpc = "idle"

SplitInit ==
    /\ sql_text \in SplitInputs
    /\ pos = 0 /\ scan = ScanInit /\ spc = "scan"
    /\ ConvertIdle /\ LoadIdle /\ StripIdle /\ DjangoIdle

\* one iteration of the for loop
ScanChar ==
    /\ spc = "scan" /\ pos < Len(sql_text)
    /\ scan' = ScanStep(scan, SubSeq(sql_text, pos + 1, pos + 1))
    /\ pos' = pos + 1
    /\ UNCHANGED <<sql_text, spc, othersOfSplit>>

\* the end of the text: the leftover, and the return
ScanReturn ==
    /\ spc = "scan" /\ pos = Len(sql_text)
    /\ scan' = [scan EXCEPT !.statements = ScanFinish(scan)]
    /\ spc' = "returned"
    /\ UNCHANGED <<sql_text, pos, othersOfSplit>>

SplitNext == ScanChar \/ ScanReturn

SpecSplit == SplitInit /\ [][SplitNext]_vars

----------------------------------------------------------------------------
(* Reference lexer: the four modes as the specification describes them,    *)
(* computed from the text alone                                            *)

RECURSIVE BackslashesBefore(_, _)
BackslashesBefore(text, i) ==
    IF i > 1 /\ SubSeq(text, i - 1, i - 1) = "\\"
    THEN 1 + BackslashesBefore(text, i - 1) ELSE 0

\* character i is taken literally: an odd run of backslashes precedes it
Escaped(text, i) == BackslashesBefore(text, i) % 2 = 1

QuoteChars == {"'", "\"", BT}

ModeOfQuote(ch) == IF ch = "'" THEN "single" ELSE IF ch = "\"" THEN "double" ELSE "backtick"

\* the mode after the first n characters of text
RECURSIVE RefMode(_, _)
RefMode(text, n) ==
    IF n = 0 THEN "normal"
    ELSE LET before == RefMode(text, n - 1)
             ch     == SubSeq(text, n, n)
         IN  IF Escaped(text, n) \/ ch \notin QuoteChars THEN before
             ELSE IF before = "normal" THEN ModeOfQuote(ch)
             ELSE IF before = ModeOfQuote(ch) THEN "normal"
             ELSE before

OpenModes(st) ==
    {m \in {"single", "double", "backtick"} :
        \/ m = "single" /\ st.in_single
        \/ m = "double" /\ st.in_double
        \/ m = "backtick" /\ st.in_backtick}

\* the character just consumed closed a statement
JustSplit == spc = "scan" /\ pos > 0 /\ scan.current = ""

\* C1: a semicolon ends a statement only outside quoting: whenever the
\* splitter has just cut, the character was a semicolon, unescaped, met in
\* normal mode; a character inside a quoted region (other than its own
\* unescaped closing quote) leaves the splitter in that one quoting mode;
\* and the INSERT whose values hold 'a;b' and "c;d" comes out as one statement.
C1_QuoteSafe ==
    /\ JustSplit =>
          /\ SubSeq(sql_text, pos, pos) = ";"
          /\ RefMode(sql_text, pos - 1) = "normal"
          /\ ~Escaped(sql_text, pos)
    /\ (spc = "scan" /\ pos > 0) =>
          LET before == RefMode(sql_text, pos - 1)
              ch     == SubSeq(sql_text, pos, pos)
          IN  (/\ before # "normal"
               /\ (Escaped(sql_text, pos) \/ ch \notin QuoteChars \/ ModeOfQuote(ch) # before))
              => (OpenModes(scan) = {before} /\ scan.current # "")
    /\ (spc = "returned" /\ sql_text = ExampleInsert) => scan.statements = <<ExampleInsert>>

C1_Witness ==
    /\ spc = "returned" /\ sql_text = ExampleInsert
    /\ Len(scan.statements) = 1
    /\ \E i \in 1..Len(sql_text) :
          SubSeq(sql_text, i, i) = ";" /\ RefMode(sql_text, i) = "double"

\* the scanner is outside every quoting mode and no escape is pending, and
\* the reference lexer agrees
Balanced ==
    /\ OpenModes(scan) = {} /\ ~scan.escape
    /\ RefMode(sql_text, pos) = "normal"
    /\ ~(pos > 0 /\ SubSeq(sql_text, pos, pos) = "\\" /\ ~Escaped(sql_text, pos))

\* the return emitted a leftover statement
LeftoverEmitted == spc = "returned" /\ StripStr(scan.current) # ""

\* C12 as stated: no statement, the final leftover included, is emitted
\* while the scanner is inside a quoted string, a quoted identifier or an
\* escape sequence.
C12_BalancedQuoting ==
    /\ JustSplit => Balanced
    /\ LeftoverEmitted => Balanced

\* C12 as it holds: every statement closed by a semicolon is emitted in normal
\* mode with no escape pending; the leftover is emitted whatever the mode, and
\* is then the last statement.
C12_SplitsBalanced ==
    /\ JustSplit => Balanced
    /\ LeftoverEmitted =>
          /\ Len(scan.statements) > 0
          /\ scan.statements[Len(scan.statements)] = StripStr(scan.current)

C12_Witness ==
    /\ JustSplit
    /\ sql_text = ExampleInsert
    /\ scan.statements = <<ExampleInsert>>
    /\ Balanced

----------------------------------------------------------------------------
(* strip_comment_lines applied to texts of a few lines *)

MaxLines == 2

\* lines as a dump holds them: comments of the three kinds, near misses of
\* each, blank lines, statements, and a value with a form feed in it
LineSamples ==
    {"", "  ", "-- c", " \t-- c", "# c", "/*!40101 SET x */;", " /*!40101 SET x */; ",
     "/*!40101 SET x */ ;", "/* c */;", "a -- b;", "a # b", "- -",
     "INSERT INTO t VALUES ('a\f# b');"}

\* the texts of k lines, each line but the last followed by a line feed or by
\* a carriage return and a line feed
RECURSIVE TextsOfLines(_)
TextsOfLines(k) ==
    IF k = 0 THEN {""}
    ELSE IF k = 1 THEN LineSamples
    ELSE {line \o nl \o rest : line \in LineSamples, nl \in {"\n", "\r\n"},
                               rest \in TextsOfLines(k - 1)}

StripInputs ==
    LET open == UNION {TextsOfLines(k) : k \in 0..MaxLines}
    IN  open \cup {text \o "\n" : text \in open}

StripInit ==
    /\ strip_in \in StripInputs
    /\ strip_out = "" /\ kpc = "call"
    /\ SplitIdle /\ ConvertIdle /\ LoadIdle /\ DjangoIdle

\* the call strip_comment_lines(strip_in)
StripCall ==
    /\ kpc = "call"
    /\ strip_out' = strip_comment_lines(strip_in)
    /\ kpc' = "returned"
    /\ UNCHANGED <<strip_in, othersOfStrip>>

SpecStrip == StripInit /\ [][StripCall]_vars

\* the lines of a text file: each ends at a newline (a carriage return before
\* the newline belongs to the terminator), the last one at the end of the text
RECURSIVE FileLinesFrom(_, _)
FileLinesFrom(s, i) ==
    IF i > Len(s) THEN <<>>
    ELSE LET ends == {j \in i..Len(s) : s[j] = "\n"}
             e    == CHOOSE j \in ends : \A k \in ends : j <= k
         IN  IF ends = {} THEN <<SubSeq(s, i, Len(s))>>
             ELSE <<SubSeq(s, i, IF e > i /\ s[e - 1] = "\r" THEN e - 2 ELSE e - 1)>> \o
                  FileLinesFrom(s, e + 1)

FileLines(text) == FileLinesFrom(S(text), 1)

\* a full-line comment or a one-line versioned directive
CommentLine(line) ==
    LET content == Strip(line)
    IN  \/ StartsWith(content, S("--"))
        \/ StartsWith(content, S("#"))
        \/ StartsWith(content, S("/*!")) /\ EndsWith(content, S("*/;"))

Stripped == kpc = "returned"

\* C13: strip_comment_lines removes exactly the lines whose trimmed content
\* starts with --, starts with # or is a complete one-line /*! ... */;
\* directive; every other line, blank lines included, is kept unchanged and in
\* the same relative order.
C13_ExactLines ==
    Stripped =>
        strip_out = Str(JoinLines(SelectSeq(FileLines(strip_in),
                                            LAMBDA line : ~CommentLine(line))))

----------------------------------------------------------------------------
(* CREATE TABLE statements as a dump writes them, and convert_statement    *)
(* applied to each                                                         *)

MaxCols == 2

ColumnDefs ==
    <<[name |-> "id", text |-> "~id~ int(11) NOT NULL AUTO_INCREMENT"],
      [name |-> "n",  text |-> "~n~ enum('a','b') DEFAULT NULL"],
      [name |-> "s",  text |-> "~s~ varchar(9) DEFAULT NULL"],
      [name |-> "k",  text |-> "~k~ bigint(20) unsigned NOT NULL"],
      [name |-> "f",  text |-> "~f~ float DEFAULT 0"]>>

KeyDefs ==
    [unique  |-> "UNIQUE KEY ~uq~ (~id~)",
     plain   |-> "KEY ~ix~ (~n~)",
     primary |-> "PRIMARY KEY (~id~)"]

KeyLists ==
    {<<>>, <<"unique">>, <<"plain">>, <<"primary", "unique">>,
     <<"unique", "plain">>, <<"plain", "unique">>}

TableOptions ==
    {"", " ENGINE=InnoDB", " ENGINE=InnoDB AUTO_INCREMENT=12 DEFAULT CHARSET=latin1"}

ColumnLists ==
    {cols \in UNION {[1..k -> 1..Len(ColumnDefs)] : k \in 1..MaxCols} :
        \A i, j \in 1..Len(cols) : i # j => cols[i] # cols[j]}

CreateShapes ==
    [kind : {"create"}, cols : ColumnLists, keys : KeyLists,
     one_line : BOOLEAN, options : TableOptions]

RECURSIVE JoinWith(_, _)
JoinWith(items, sep) ==
    IF items = <<>> THEN ""
    ELSE IF Len(items) = 1 THEN items[1]
    ELSE items[1] \o sep \o JoinWith(Tail(items), sep)

ShapeItems(sh) ==
    [i \in 1..Len(sh.cols) |-> ColumnDefs[sh.cols[i]].text]
      \o [i \in 1..Len(sh.keys) |-> KeyDefs[sh.keys[i]]]

\* the text of the statement: one line, or one line per column and key
RenderCreate(sh) ==
    IF sh.one_line
    THEN "CREATE TABLE ~t~ (" \o JoinWith(ShapeItems(sh), ", ") \o ")" \o sh.options \o ";"
    ELSE "CREATE TABLE ~t~ (\n  " \o JoinWith(ShapeItems(sh), ",\n  ") \o "\n)"
           \o sh.options \o ";"

ExampleCreateShape ==
    [kind |-> "create", cols |-> <<1, 2>>, keys |-> <<"unique">>,
     one_line |-> TRUE, options |-> " ENGINE=InnoDB"]

\* statements convert_statement passes through: backticks as identifier
\* quotes, and a backtick inside a string value
PassStatements ==
    {"INSERT INTO ~t~ (~a~) VALUES (1, 'x;y');",
     "INSERT INTO ~t~ VALUES ('a~b');",
     "insert into ~t~ values (\"c~d\", 'it\\'s');",
     "DROP TABLE IF EXISTS ~t~;",
     "  DROP TABLE ~t~ ;; ",
     "UPDATE ~t~ SET ~a~ = 'b' WHERE ~k~ = 1;",
     "DELETE FROM t"}

ConvertInit ==
    /\ \/ shape \in CreateShapes /\ in_stmt = RenderCreate(shape)
       \/ shape \in [kind : {"pass"}, text : PassStatements] /\ in_stmt = shape.text
    /\ out_stmt = "" /\ cpc = "call"
    /\ SplitIdle /\ LoadIdle /\ StripIdle /\ DjangoIdle

\* the call convert_statement(in_stmt)
Convert ==
    /\ cpc = "call"
    /\ out_stmt' = Str(convert_statement(S(in_stmt)))
    /\ cpc' = "returned"
    /\ UNCHANGED <<shape, in_stmt, othersOfConvert>>

ConvertNext == Convert

SpecConvert == ConvertInit /\ [][ConvertNext]_vars

----------------------------------------------------------------------------
(* Properties of the CREATE TABLE rewrite *)

OccursAt(str, sub, i) == i + Len(sub) - 1 <= Len(str) /\ SubSeq(str, i, i + Len(sub) - 1) = sub

Contains(str, sub) == \E i \in 1..(Len(str) - Len(sub) + 1) : OccursAt(str, sub, i)

UpperStr(str) == Str(Upper(S(str)))

Quoted(name) == "\"" \o name \o "\""

\* the words occur in s one after the other, from position from on
RECURSIVE OccurInOrder(_, _, _)
OccurInOrder(str, words, from) ==
    \/ words = <<>>
    \/ \E i \in from..Len(str) :
          /\ OccursAt(str, words[1], i)
          /\ OccurInOrder(str, Tail(words), i + Len(words[1]))

ShapeColumnNames(sh) == [i \in 1..Len(sh.cols) |-> Quoted(ColumnDefs[sh.cols[i]].name)]

ConvertedCreate == cpc = "returned" /\ shape.kind = "create"

\* C6: every column of the source CREATE TABLE is in the converted
\* statement under the same name, double-quoted, and the columns keep their
\* order.
C6_ColumnsPreserved ==
    ConvertedCreate => OccurInOrder(out_stmt, ShapeColumnNames(shape), 1)

IntegerTypeNames == {"TINYINT", "SMALLINT", "MEDIUMINT", "INT", "INTEGER", "BIGINT"}

HasBacktick(str) == Contains(str, BT)

HasAutoIncrement(str) == Contains(UpperStr(str), "AUTO_INCREMENT")

\* an integer type name, as a word, followed by a parenthesised number
HasDisplayWidth(str) ==
    LET u == S(UpperStr(str))
    IN  \E i \in 1..Len(u) : \E w \in IntegerTypeNames :
           /\ MatchLit(u, i, S(w))
           /\ (i = 1 \/ ~IsWord(u[i - 1]))
           /\ LET j == SkipSpaces(u, i + Len(w))
                  d == SkipDigits(u, SkipSpaces(u, j + 1))
              IN  /\ j <= Len(u) /\ u[j] = "("
                  /\ d > SkipSpaces(u, j + 1)
                  /\ SkipSpaces(u, d) <= Len(u) /\ u[SkipSpaces(u, d)] = ")"

\* C7: the converted CREATE TABLE holds no backtick, no AUTO_INCREMENT
\* (table option or column modifier) and no display width on an integer type.
C7_NoMySqlLeftovers ==
    ConvertedCreate =>
        /\ ~HasBacktick(out_stmt)
        /\ ~HasAutoIncrement(out_stmt)
        /\ ~HasDisplayWidth(out_stmt)

C7_Witness ==
    /\ ConvertedCreate
    /\ HasBacktick(in_stmt)
    /\ Contains(in_stmt, " NOT NULL AUTO_INCREMENT")
    /\ Contains(in_stmt, " AUTO_INCREMENT=12")
    /\ Contains(in_stmt, "bigint(20)")
    /\ Contains(in_stmt, "int(11)")
    /\ Contains(out_stmt, "\"k\" INTEGER")

\* C8: a UNIQUE KEY "<name>" (<cols>) constraint becomes UNIQUE (<cols>) and
\* a KEY "<name>" (<cols>) declaration is removed, the statement written on
\* one line included.
C8_KeysRewritten ==
    ConvertedCreate =>
        /\ (\E i \in 1..Len(shape.keys) : shape.keys[i] = "unique") =>
              /\ Contains(out_stmt, "UNIQUE (\"id\")")
              /\ ~Contains(UpperStr(out_stmt), "UNIQUE KEY")
        /\ (\E i \in 1..Len(shape.keys) : shape.keys[i] = "plain") =>
              ~Contains(out_stmt, "KEY \"ix\"")

\* the statement as steps 1 to 7 of the rewrite leave it
BeforeTableOptions(str) ==
    LET stripped == Strip(RStripSemi(Strip(S(str))))
    IN  JoinLines(ConvertLines(SplitLines(SubAutoIncrementInline(SubAutoIncrementOption(
            normalize_types(ReplaceBackticks(stripped)))))))

\* the last closing parenthesis of a text (0: none)
FinalParen(s) ==
    LET closing == {i \in 1..Len(s) : s[i] = ")"}
    IN  IF closing = {} THEN 0 ELSE CHOOSE i \in closing : \A j \in closing : j <= i

\* C19: step 8 removes only the table-option clause that trails after the
\* final closing parenthesis: the text up to that parenthesis (a column with
\* a parenthesised type followed by DEFAULT, and what comes after it) stays,
\* and the statement ends with the parenthesis that closes the table body.
C19_OnlyTrailingOptions ==
    ConvertedCreate =>
        LET before == BeforeTableOptions(in_stmt)
        IN  /\ StripTableOptions(before) = SubSeq(before, 1, FinalParen(before))
            /\ out_stmt = Str(StripDanglingComma(SubSeq(before, 1, FinalParen(before))))

\* C20: after the rewrite no comma comes immediately (whitespace aside)
\* before the final closing parenthesis, which ends the statement: the comma
\* left when step 7 drops a KEY line at the end of the table body is removed,
\* also when a table-option clause followed the parenthesis.
C20_NoDanglingComma ==
    ConvertedCreate =>
        LET out   == S(out_stmt)
            final == FinalParen(out)
        IN  /\ final = Len(out)
            /\ ~\E i \in 1..(final - 1) : out[i] = "," /\ SkipSpaces(out, i + 1) = final

C20_Witness ==
    /\ ConvertedCreate
    /\ shape = [kind |-> "create", cols |-> <<1, 4>>, keys |-> <<"plain">>,
                one_line |-> FALSE, options |-> " ENGINE=InnoDB"]
    /\ Contains(in_stmt, "NOT NULL,\n  KEY ~ix~ (~n~)\n) ENGINE=InnoDB;")
    /\ out_stmt = "CREATE TABLE \"t\" (\n  \"id\" INTEGER NOT NULL,\n  \"k\" INTEGER  NOT NULL)"

ConvertedPass == cpc = "returned" /\ shape.kind = "pass"

\* the statement without the whitespace around it and its semicolons
Bare(str) == Str(Strip(RStripSemi(Strip(S(str)))))

\* C21: a pass-through statement (INSERT INTO, DROP TABLE, any other kind
\* that is neither skipped nor CREATE TABLE) is converted by identifier
\* normalization only: a backtick that quotes an identifier becomes a double
\* quote and every other character, the content of string literals included,
\* is unchanged.
C21_PassThroughIdentifiersOnly ==
    ConvertedPass =>
        LET bare == Bare(in_stmt)
        IN  /\ Len(out_stmt) = Len(bare)
            /\ \A i \in 1..Len(bare) :
                  LET ch == SubSeq(bare, i, i)
                  IN  SubSeq(out_stmt, i, i) =
                          IF ch = BT /\ RefMode(bare, i - 1) \in {"normal", "backtick"}
                          THEN "\"" ELSE ch

----------------------------------------------------------------------------
(* The database engine behind conn.execute: sqlite3 as the loader sees it  *)

Letters == LowerSet \cup UpperSet

\* the first word of a statement, upper-cased
LeadingKeyword(sql) ==
    LET rest == {i \in 1..Len(sql) : sql[i] \notin Letters}
        stop == IF rest = {} THEN Len(sql) + 1 ELSE CHOOSE i \in rest : \A j \in rest : i <= j
    IN  Str(Upper(SubSeq(sql, 1, stop - 1)))

\* the statements before which the connection opens a transaction by itself
DmlKeywords == {"INSERT", "UPDATE", "DELETE", "REPLACE"}

\* the statements that end the open transaction and keep its effects
CommitKeywords == {"END", "COMMIT"}

\* the other statements of this model that the engine can parse
OtherKeywords == {"CREATE", "DROP"}

\* what conn.execute(sql) can do: the engine rejects what it cannot parse,
\* ends a transaction only when one is open, starts one only when none is,
\* and accepts or rejects any other statement depending on the data
ExecuteOutcomes(c, sql) ==
    LET keyword == LeadingKeyword(S(sql))
    IN  IF keyword \in CommitKeywords THEN (IF c.in_transaction THEN {"ok"} ELSE {"error"})
        ELSE IF keyword = "BEGIN" THEN (IF c.in_transaction THEN {"error"} ELSE {"ok"})
        ELSE IF keyword = "PRAGMA" THEN {"ok"}
        ELSE IF keyword \in DmlKeywords \cup OtherKeywords THEN {"ok", "error"}
        ELSE {"error"}

\* the connection after sql, the i-th statement, was executed.  PRAGMA
\* foreign_keys does nothing while a transaction is open
ConnAfterExecute(c, sql, i) ==
    LET keyword == LeadingKeyword(S(sql))
        setting == IF sql = "PRAGMA foreign_keys = ON" THEN "ON"
                   ELSE IF sql = "PRAGMA foreign_keys = OFF" THEN "OFF"
                   ELSE c.foreign_keys
    IN  IF keyword \in CommitKeywords
        THEN [c EXCEPT !.in_transaction = FALSE, !.pending = <<>>]
        ELSE IF keyword = "BEGIN" THEN [c EXCEPT !.in_transaction = TRUE]
        ELSE IF keyword = "PRAGMA"
        THEN (IF c.in_transaction THEN c ELSE [c EXCEPT !.foreign_keys = setting])
        ELSE IF keyword \in DmlKeywords
        THEN [c EXCEPT !.in_transaction = TRUE,
                       !.pending = Append(@, [index |-> i, sql |-> sql])]
        ELSE IF c.in_transaction
        THEN [c EXCEPT !.pending = Append(@, [index |-> i, sql |-> sql])]
        ELSE c

\* what the database file holds after sql, the i-th statement, was executed
DatabaseAfterExecute(db, c, sql, i) ==
    LET keyword == LeadingKeyword(S(sql))
    IN  IF keyword \in CommitKeywords THEN db \o c.pending
        ELSE IF keyword \in {"BEGIN", "PRAGMA"} \/ keyword \in DmlKeywords \/ c.in_transaction
        THEN db
        ELSE Append(db, [index |-> i, sql |-> sql])

\* conn.commit()
ConnAfterCommit(c) == [c EXCEPT !.in_transaction = FALSE, !.pending = <<>>]

DatabaseAfterCommit(db, c) == IF c.in_transaction THEN db \o c.pending ELSE db

\* conn.rollback()
ConnAfterRollback(c) == [c EXCEPT !.in_transaction = FALSE, !.pending = <<>>]

\* conn.close()
ConnAfterClose(c) == [c EXCEPT !.open = FALSE, !.in_transaction = FALSE, !.pending = <<>>]

----------------------------------------------------------------------------
(* import_dump.  One pass of the loop is two steps: Fetch takes the next   *)
(* statement and computes the locals use_db and converted, then one of the *)
(* branches of the body acts on them.  A local is <<>> for None and        *)
(* <<value>> for a value.                                                  *)

SYSTEM_SCHEMAS == {"information_schema", "mysql", "performance_schema", "sys"}

\* main: the inclusion set when no --schema is given
DefaultIncludeSchemas == [is_none |-> FALSE, names |-> {"chiamogna"}]

SkipOutcomes == {"use", "skip_converted", "skip_schema", "skip_system"}

\* the statement of this pass
Current == statements[index]

Entry(outcome) ==
    [index |-> index, outcome |-> outcome, sql |-> Current, passed |-> converted]

InBody == lpc = "body"

\* the condition of line 234: not converted
NotConverted == converted = <<>> \/ converted = <<"">>

\* the schema filter switched off
SchemaFilteredNever == FALSE

\* the condition of line 238 without its test of active_schema
SchemaFilteredWhenUnset ==
    /\ ~include_schemas.is_none
    /\ active_schema = <<>> \/ active_schema[1] \notin include_schemas.names

\* the condition of line 238
SchemaFiltered ==
    /\ active_schema # <<>>
    /\ ~include_schemas.is_none
    /\ active_schema[1] \notin include_schemas.names

\* the system-schema filter switched off
SystemFilteredNever == FALSE

\* the condition of line 242
SystemFiltered ==
    /\ active_schema # <<>>
    /\ exclude_system_schemas
    /\ active_schema[1] \in SYSTEM_SCHEMAS

\* lines 288-296: the arguments main passes to import_dump
Main ==
    /\ lpc = "main"
    /\ include_schemas' = IF args[1].schemas # <<>>
                          THEN [is_none |-> FALSE, names |-> args[1].schemas[1]]
                          ELSE DefaultIncludeSchemas
    /\ exclude_system_schemas' = ~args[1].include_system_schemas
    /\ lpc' = "start"
    /\ UNCHANGED <<args, existing, raw_text, statements, index, use_db, converted, executed,
                   skipped, active_schema, conn, database, journal, raised, othersOfLoad>>

\* lines 212-224: read, strip, split, connect, the two PRAGMAs and BEGIN.
\* sqlite3.connect opens the file as it is: what it held stays (existing)
Begin ==
    /\ lpc = "start"
    /\ statements' = split_sql_statements(strip_comment_lines(raw_text))
    /\ executed' = 0 /\ skipped' = 0 /\ active_schema' = <<>>
    /\ LET connected == [conn EXCEPT !.open = TRUE]
           journalled == ConnAfterExecute(connected, "PRAGMA journal_mode = WAL", 0)
           unenforced == ConnAfterExecute(journalled, "PRAGMA foreign_keys = OFF", 0)
       IN  conn' = ConnAfterExecute(unenforced, "BEGIN", 0)
    /\ lpc' = "loop"
    /\ UNCHANGED <<args, existing, raw_text, include_schemas, exclude_system_schemas, index, use_db,
                   converted, database, journal, raised,  othersOfLoad>>

\* lines 226, 227 and 233: the next statement, use_db and converted
Fetch ==
    /\ lpc = "loop" /\ index < Len(statements)
    /\ index' = index + 1
    /\ LET statement == statements[index + 1]
           match     == extract_use_database(Strip(S(statement)))
           value     == convert_statement(S(statement))
       IN  /\ use_db' = IF match # None THEN <<Str(match)>> ELSE <<>>
           /\ converted' = IF match # None \/ value = None THEN <<>> ELSE <<Str(value)>>
    /\ lpc' = "body"
    /\ UNCHANGED <<args, existing, raw_text, include_schemas, exclude_system_schemas, statements, executed,
                   skipped, active_schema, conn, database, journal, raised,
                   othersOfLoad>>

\* a skip branch other than the USE branch: skipped += 1; continue
SkipAs(outcome) ==
    /\ skipped' = skipped + 1
    /\ journal' = Append(journal, Entry(outcome))
    /\ lpc' = "loop"
    /\ UNCHANGED <<args, existing, raw_text, include_schemas, exclude_system_schemas, statements, index,
                   use_db, converted, executed, active_schema, conn, database, raised,
                    othersOfLoad>>

\* lines 228-231 with the count forgotten
StepUseUncounted ==
    /\ InBody /\ use_db # <<>>
    /\ active_schema' = use_db
    /\ journal' = Append(journal, Entry("use"))
    /\ lpc' = "loop"
    /\ UNCHANGED <<args, existing, raw_text, include_schemas, exclude_system_schemas, statements, index,
                   use_db, converted, executed, skipped, conn, database, raised,
                    othersOfLoad>>

\* lines 228-231 with the schema set only while none is active
StepUseFirstOnly ==
    /\ InBody /\ use_db # <<>>
    /\ active_schema' = IF active_schema = <<>> THEN use_db ELSE active_schema
    /\ skipped' = skipped + 1
    /\ journal' = Append(journal, Entry("use"))
    /\ lpc' = "loop"
    /\ UNCHANGED <<args, existing, raw_text, include_schemas, exclude_system_schemas, statements,
                   index, use_db, converted, executed, conn, database, raised,
                   othersOfLoad>>

\* lines 228-231: the statement names a schema
StepUse ==
    /\ InBody /\ use_db # <<>>
    /\ active_schema' = use_db
    /\ skipped' = skipped + 1
    /\ journal' = Append(journal, Entry("use"))
    /\ lpc' = "loop"
    /\ UNCHANGED <<args, existing, raw_text, include_schemas, exclude_system_schemas, statements, index,
                   use_db, converted, executed, conn, database, raised,
                   othersOfLoad>>

\* lines 234-236: convert_statement gave None or an empty text
StepSkipConverted ==
    /\ InBody /\ use_db = <<>> /\ NotConverted
    /\ SkipAs("skip_converted")

\* lines 238-240: the active schema is not one asked for
StepSkipSchema ==
    /\ InBody /\ use_db = <<>> /\ ~NotConverted
    /\ SchemaFiltered
    /\ SkipAs("skip_schema")

\* lines 242-244: the active schema is a system schema
StepSkipSystem ==
    /\ InBody /\ use_db = <<>> /\ ~NotConverted
    /\ ~SchemaFiltered /\ SystemFiltered
    /\ SkipAs("skip_system")

\* the statement reaches line 247
Executable ==
    /\ InBody /\ use_db = <<>> /\ ~NotConverted
    /\ ~SchemaFiltered /\ ~SystemFiltered

\* lines 246-252: conn.execute(converted) succeeds
StepExecute ==
    /\ Executable
    /\ "ok" \in ExecuteOutcomes(conn, converted[1])
    /\ conn' = ConnAfterExecute(conn, converted[1], index)
    /\ database' = DatabaseAfterExecute(database, conn, converted[1], index)
    /\ journal' = Append(journal, Entry("executed"))
    /\ executed' = executed + 1
    /\ lpc' = "loop"
    /\ UNCHANGED <<args, existing, raw_text, include_schemas, exclude_system_schemas, statements, index,
                   use_db, converted, skipped, active_schema, raised,
                   othersOfLoad>>

\* lines 246-251 and 255-259 with the index counted from 0
StepExecuteFailZeroBased ==
    /\ Executable
    /\ "error" \in ExecuteOutcomes(conn, converted[1])
    /\ raised' = <<[index |-> index - 1, active_schema |-> active_schema,
                    statement |-> converted[1]]>>
    /\ journal' = Append(journal, Entry("failed"))
    /\ conn' = ConnAfterClose(ConnAfterRollback(conn))
    /\ lpc' = "raised"
    /\ UNCHANGED <<args, existing, raw_text, include_schemas, exclude_system_schemas, statements, index,
                   use_db, converted, executed, skipped, active_schema, database,
                    othersOfLoad>>

\* lines 246-251 and 255-259: conn.execute(converted) raises; the error is
\* raised again with the index, the schema and the text, the transaction is
\* rolled back and the connection closed
StepExecuteFail ==
    /\ Executable
    /\ "error" \in ExecuteOutcomes(conn, converted[1])
    /\ raised' = <<[index |-> index, active_schema |-> active_schema,
                    statement |-> converted[1]]>>
    /\ journal' = Append(journal, Entry("failed"))
    /\ conn' = ConnAfterClose(ConnAfterRollback(conn))
    /\ lpc' = "raised"
    /\ UNCHANGED <<args, existing, raw_text, include_schemas, exclude_system_schemas, statements, index,
                   use_db, converted, executed, skipped, active_schema, database,
                    othersOfLoad>>

\* lines 254, 259 and 261: the loop is over; commit, close, return
Finish ==
    /\ lpc = "loop" /\ index = Len(statements)
    /\ database' = DatabaseAfterCommit(database, conn)
    /\ conn' = ConnAfterClose(ConnAfterCommit(conn))
    /\ lpc' = "returned"
    /\ UNCHANGED <<args, existing, raw_text, include_schemas, exclude_system_schemas, statements, index,
                   use_db, converted, executed, skipped, active_schema, journal, raised,
                    othersOfLoad>>

Next ==
    \/ Main
    \/ Begin
    \/ Fetch
    \/ StepUse
    \/ StepSkipConverted
    \/ StepSkipSchema
    \/ StepSkipSystem
    \/ StepExecute
    \/ StepExecuteFail
    \/ Finish

----------------------------------------------------------------------------
(* The dumps import_dump is run on *)

MaxStmts == 3

UseChiamogna == "USE chiamogna;"
UseOtherDb   == "USE other_db;"
UseMysql     == "USE mysql;"
UseTwoWords  == "USE ~a b~;"
InsertRow    == "INSERT INTO ~t~ VALUES (1);"
CreateTable  == "CREATE TABLE ~t~ (~id~ int(11));"
EndStatement == "END;"
SetNames     == "set names utf8;"

\* the statements every dump of up to MaxStmts statements is made of
CoreStatements == {UseChiamogna, UseOtherDb, UseTwoWords, InsertRow, EndStatement, SetNames}

\* statements of the kinds convert_statement discards, in several letter cases
SkipSamples ==
    {"SET NAMES utf8;", "Set Names utf8;",
     "LOCK TABLES t WRITE;", "lock tables t write;",
     "UNLOCK TABLES;", "Unlock Tables;",
     "DELIMITER x;", "delimiter x;",
     "START TRANSACTION;", "start transaction;",
     "COMMIT;", "commit;",
     "ROLLBACK;", "rollBack;",
     "CREATE DATABASE d;", "create database d;",
     "DROP DATABASE d;", "drop Database d;",
     "ALTER TABLE t ADD c int;", "alter table t add c int;",
     "/*!50003 SET x=1 */ ;", "/*!50003 set x=1 */ ;"}

\* further statements, tried alone and after a USE
WideStatements == SkipSamples \cup {CreateTable, UseMysql, "SET ;", ";", "USE;", "use Chiamogna"}

CoreDumps == UNION {[1..k -> CoreStatements] : k \in 0..MaxStmts}

WideDumps ==
    {<<w>> : w \in WideStatements}
      \cup {<<u, w>> : u \in {UseChiamogna, UseOtherDb, UseMysql}, w \in WideStatements}

SampleDumps ==
    {<<UseOtherDb, InsertRow, CreateTable, UseChiamogna, InsertRow>>,
     <<UseMysql, InsertRow, UseChiamogna, CreateTable, InsertRow>>,
     <<"USE information_schema;", InsertRow>>,
     <<"USE performance_schema;", CreateTable>>,
     <<"USE ~sys~;", InsertRow, EndStatement>>,
     <<"PRAGMA foreign_keys = ON;", InsertRow>>,
     <<InsertRow, EndStatement, "PRAGMA foreign_keys = ON;", InsertRow>>,
     <<UseChiamogna, "INSERT INTO ~t~ VALUES ('a\nb; c');", InsertRow>>,
     <<UseChiamogna, "INSERT INTO ~t~ VALUES ('a\n-- b\nc');">>}

Dumps == CoreDumps \cup WideDumps \cup SampleDumps

\* the text of the dump file: a comment line, then one statement per line
DumpText(dump) == "-- MySQL dump\n" \o JoinWith(dump, "\n")

\* the command lines: no --schema, or --schema three times
ArgChoices ==
    {<<[schemas |-> names, include_system_schemas |-> flag]>> :
        names \in {<<>>, <<{"chiamogna", "mysql", "sys"}>>}, flag \in BOOLEAN}

\* a table with a row in it, left in the file by an earlier run
PriorContent == <<[index |-> 0, sql |-> "CREATE TABLE old (x)"]>>

\* the run starts in main, or in import_dump called with no inclusion set
Init ==
    /\ \E dump \in Dumps :
          /\ raw_text = DumpText(dump)
          /\ existing \in (IF Len(dump) <= 1 \/ dump \in SampleDumps
                            THEN {<<>>, PriorContent} ELSE {<<>>})
    /\ \/ /\ args \in ArgChoices
          /\ exclude_system_schemas = FALSE
          /\ lpc = "main"
       \/ /\ args = <<>>
          /\ exclude_system_schemas \in BOOLEAN
          /\ lpc = "start"
    /\ include_schemas = [is_none |-> TRUE, names |-> {}]
    /\ statements = <<>> /\ index = 0 /\ use_db = <<>> /\ converted = <<>>
    /\ executed = 0 /\ skipped = 0
    /\ active_schema = <<>>
    /\ conn = [open |-> FALSE, in_transaction |-> FALSE, foreign_keys |-> "default",
               pending |-> <<>>]
    /\ database = <<>> /\ journal = <<>> /\ raised = <<>>
    /\ SplitIdle /\ ConvertIdle /\ StripIdle /\ DjangoIdle

Spec == Init /\ [][Next]_vars

----------------------------------------------------------------------------
(* Properties of import_dump *)

CountOutcomes(entries, outcomes) ==
    Cardinality({i \in 1..Len(entries) : entries[i].outcome \in outcomes})

\* C2: when the execution of a statement fails, the database holds none of
\* the effects of the statements of the run, whatever statements came before.
C2_Atomicity == lpc = "raised" => database = <<>>

\* C3: when import_dump returns, executed + skipped is the number of
\* statements the splitter produced, and every statement taken so far was
\* counted once, by one of the two counters.
C3_CountInvariant ==
    /\ lpc \in {"loop", "returned"} => executed + skipped = index
    /\ lpc \in {"loop", "body", "returned"} =>
          /\ Len(journal) = executed + skipped
          /\ \A i \in 1..Len(journal) : journal[i].index = i
          /\ executed = CountOutcomes(journal, {"executed"})
          /\ skipped = CountOutcomes(journal, SkipOutcomes)
    /\ lpc = "returned" =>
          executed + skipped = Len(split_sql_statements(strip_comment_lines(raw_text)))

C3_Witness ==
    /\ lpc = "returned"
    /\ executed >= 2 /\ skipped >= 3
    /\ Len(statements) = 5

\* the text convert_statement looks at, upper-cased
InspectedUpper(sql) == Upper(Strip(RStripSemi(Strip(S(sql)))))

\* the USE statement that governs statement i: the nearest one before it
RECURSIVE GoverningUse(_, _)
GoverningUse(stmts, i) ==
    IF i <= 1 THEN ""
    ELSE IF LeadingKeyword(S(stmts[i - 1])) = "USE" THEN stmts[i - 1]
    ELSE GoverningUse(stmts, i - 1)

\* C4: with the inclusion set {"chiamogna"}, a statement after USE other_db;
\* is counted as skipped and not executed, and an INSERT or CREATE TABLE
\* after USE chiamogna; is passed to the engine.
C4_SchemaFiltering ==
    include_schemas = DefaultIncludeSchemas =>
        /\ \A i \in 1..Len(journal) :
              LET governing == GoverningUse(statements, i)
                  inspected == InspectedUpper(statements[i])
              IN  /\ governing = UseOtherDb => journal[i].outcome \in SkipOutcomes
                  /\ (/\ governing = UseChiamogna
                      /\ \/ StartsWith(inspected, S("INSERT INTO"))
                         \/ StartsWith(inspected, S("CREATE TABLE")))
                        => journal[i].outcome \in {"executed", "failed"}
        /\ skipped = CountOutcomes(journal, SkipOutcomes)

C4_Witness ==
    /\ include_schemas = DefaultIncludeSchemas
    /\ lpc = "returned"
    /\ statements = <<UseOtherDb, InsertRow, CreateTable, UseChiamogna, InsertRow>>
    /\ journal[2].outcome = "skip_schema"
    /\ journal[3].outcome = "skip_schema"
    /\ journal[5].outcome = "executed"
    /\ skipped = 4 /\ executed = 1

\* C5: a statement whose leading keyword is USE is never passed to the
\* engine: it is counted as skipped.
C5_UseNeverExecuted ==
    \A i \in 1..Len(journal) :
        LeadingKeyword(S(journal[i].sql)) = "USE" => journal[i].outcome \in SkipOutcomes

\* the prefixes the claim lists
SkipPrefixes ==
    {"SET ", "LOCK TABLES", "UNLOCK TABLES", "DELIMITER", "START TRANSACTION", "COMMIT",
     "ROLLBACK", "CREATE DATABASE", "DROP DATABASE", "ALTER TABLE", "/*!"}

\* C9: a statement whose upper-cased text (as convert_statement looks at it:
\* trimmed, the closing semicolons removed) starts with one of the eleven
\* prefixes is given None by convert_statement in any letter case, and the
\* loader counts it as skipped and does not execute it.
C9_SkipClassification ==
    \A i \in 1..Len(journal) :
        (\E prefix \in SkipPrefixes : StartsWith(InspectedUpper(journal[i].sql), S(prefix)))
          => /\ convert_statement(S(journal[i].sql)) = None
             /\ journal[i].outcome \in SkipOutcomes
             /\ journal[i].passed = <<>>

C9_Witness ==
    /\ lpc = "returned"
    /\ active_schema = <<"chiamogna">>
    /\ include_schemas = DefaultIncludeSchemas
    /\ Len(journal) = 2
    /\ journal[2].sql = "drop Database d;"
    /\ journal[2].outcome = "skip_converted"
    /\ skipped = 2 /\ executed = 0

\* the schema named by the nearest matching USE among the first n statements
RECURSIVE SchemaAfter(_, _)
SchemaAfter(stmts, n) ==
    IF n = 0 THEN <<>>
    ELSE LET match == extract_use_database(Strip(S(stmts[n])))
         IN  IF match # None THEN <<Str(match)>> ELSE SchemaAfter(stmts, n - 1)

\* C10: the error raised on a failure carries the index of the failing
\* statement, counted from 1 over all the statements of the splitter, the
\* active schema at that point and the converted text of the statement.
C10_ErrorIdentifies ==
    lpc = "raised" =>
        LET error == raised[1]
        IN  /\ error.index \in 1..Len(statements)
            /\ error.index = executed + skipped + 1
            /\ Len(journal) = error.index
            /\ journal[error.index].outcome = "failed"
            /\ error.statement = Str(convert_statement(S(statements[error.index])))
            /\ error.active_schema = SchemaAfter(statements, error.index - 1)

C10_Witness ==
    /\ lpc = "raised"
    /\ statements = <<UseChiamogna, SetNames, InsertRow>>
    /\ raised = <<[index |-> 3, active_schema |-> <<"chiamogna">>,
                   statement |-> "INSERT INTO \"t\" VALUES (1)"]>>
    /\ skipped = 2

\* C11: without the include-system-schemas flag (exclude_system_schemas is
\* TRUE), a statement taken while the active schema is one of the four system
\* schemas is not executed and is counted as skipped, also when the schema
\* is in the inclusion set or no inclusion set is given.
C11_SystemSchemasExcluded ==
    exclude_system_schemas =>
        /\ \A i \in 1..Len(journal) :
              LET active == SchemaAfter(statements, i - 1)
              IN  (active # <<>> /\ active[1] \in SYSTEM_SCHEMAS)
                    => journal[i].outcome \in SkipOutcomes
        /\ skipped = CountOutcomes(journal, SkipOutcomes)

C11_Witness ==
    /\ exclude_system_schemas
    /\ "mysql" \in include_schemas.names
    /\ lpc = "returned"
    /\ statements = <<UseMysql, InsertRow, UseChiamogna, CreateTable, InsertRow>>
    /\ journal[2].outcome = "skip_system"
    /\ journal[5].outcome = "executed"
    /\ skipped = 3 /\ executed = 2

\* the first schema a USE statement of the dump names that is not a system
\* schema: <<name>>, or <<>> when there is none
FirstNonSystemSchema(stmts) ==
    LET named == {i \in 1..Len(stmts) :
                     LET match == extract_use_database(Strip(S(stmts[i])))
                     IN  match # None /\ Str(match) \notin SYSTEM_SCHEMAS}
    IN  IF named = {} THEN <<>>
        ELSE <<Str(extract_use_database(Strip(S(stmts[CHOOSE i \in named :
                                                        \A j \in named : i <= j]))))>>

\* C14: when no --schema option is given, the inclusion set is the first
\* non-system schema found in the dump, as the help of --schema states.
C14_DefaultFromDump ==
    (args # <<>> /\ args[1].schemas = <<>> /\ lpc \in {"loop", "body", "returned", "raised"}) =>
        LET first == FirstNonSystemSchema(statements)
        IN  first # <<>> => include_schemas = [is_none |-> FALSE, names |-> {first[1]}]

\* the database file: what it held before the run, then what the run left
FileContent == existing \o database

\* C15: a successful run creates or overwrites the database file: content the
\* file held before the run is not part of the database the run leaves.
C15_PriorContentGone == lpc = "returned" => FileContent = database

----------------------------------------------------------------------------
(* core/models.py: Turno and TurnoProprietario.  A row is a record with its *)
(* pk; a duration is a number of minutes.                                   *)

RECURSIVE SumTempo(_)
SumTempo(rows) ==
    IF rows = {} THEN 0
    ELSE LET one == CHOOSE r \in rows : TRUE
         IN  one.tempo + SumTempo(rows \ {one})

\* Turno.ricalcola_durata on the Turno with this pk
ricalcola_durata(t, pk) ==
    LET total_durata == SumTempo({r \in t.tp : r.turno = pk})
    IN  [t EXCEPT !.turno = {IF r.pk = pk THEN [r EXCEPT !.durata = total_durata] ELSE r :
                                r \in t.turno}]

\* unique_together of TurnoProprietario: another row has this turno and
\* proprietario, and the database refuses the write
ProprietarioClash(t, instance) ==
    \E r \in t.tp : /\ r.pk # instance.pk
                    /\ r.turno = instance.turno
                    /\ r.proprietario = instance.proprietario

\* TurnoProprietario.save of an instance (pk 0: not saved before) that the
\* database accepts
TurnoProprietarioSave(t, instance) ==
    LET row   == IF instance.pk = 0 THEN [instance EXCEPT !.pk = t.next] ELSE instance
        saved == [t EXCEPT !.tp   = {r \in @ : r.pk # row.pk} \cup {row},
                           !.next = IF instance.pk = 0 THEN @ + 1 ELSE @]
    IN  ricalcola_durata(saved, instance.turno)

\* TurnoProprietario.delete
TurnoProprietarioDelete(t, instance) ==
    ricalcola_durata([t EXCEPT !.tp = {r \in @ : r.pk # instance.pk}], instance.turno)

----------------------------------------------------------------------------
(* Saves and deletes of TurnoProprietario rows on a database of two Turni *)

MaxPk == 8

TwoTurni ==
    [persona |-> {1, 2},
     giro    |-> {[pk |-> 3, ramo |-> "BOSCHETTO", tipo |-> "A", ordine |-> 1]},
     turno   |-> {[pk |-> 4, giro |-> 3, ordine |-> 30, utilizzatore |-> 1, durata |-> 0],
                  [pk |-> 5, giro |-> 3, ordine |-> 60, utilizzatore |-> 2, durata |-> 0]},
     tp      |-> {},
     next    |-> 6]

TurniInit ==
    /\ tables = TwoTurni /\ hpc = "models"
    /\ options = [source_exists |-> FALSE, source_is_file |-> FALSE,
                  consorzio_name |-> "", no_reset |-> FALSE]
    /\ legacy = NoRows /\ locals = NoLocals
    /\ SplitIdle /\ ConvertIdle /\ LoadIdle /\ StripIdle

\* TurnoProprietario.objects.create(turno=..., proprietario=..., tempo=...)
CreateProprietario ==
    /\ hpc = "models" /\ tables.next <= MaxPk
    /\ \E turno \in tables.turno, proprietario \in tables.persona, tempo \in {60, 90} :
          LET instance == [pk |-> 0, turno |-> turno.pk, proprietario |-> proprietario,
                           tempo |-> tempo]
          IN  /\ ~ProprietarioClash(tables, instance)
              /\ tables' = TurnoProprietarioSave(tables, instance)
    /\ UNCHANGED <<options, legacy, locals, hpc, othersOfDjango>>

\* a saved row is given another turno or another tempo and saved again
SaveProprietario ==
    /\ hpc = "models"
    /\ \E row \in tables.tp, turno \in tables.turno, tempo \in {60, 90} :
          LET instance == [row EXCEPT !.turno = turno.pk, !.tempo = tempo]
          IN  /\ instance # row
              /\ ~ProprietarioClash(tables, instance)
              /\ tables' = TurnoProprietarioSave(tables, instance)
    /\ UNCHANGED <<options, legacy, locals, hpc, othersOfDjango>>

\* a saved row is deleted
DeleteProprietario ==
    /\ hpc = "models"
    /\ \E row \in tables.tp : tables' = TurnoProprietarioDelete(tables, row)
    /\ UNCHANGED <<options, legacy, locals, hpc, othersOfDjango>>

SpecTurni ==
    TurniInit /\ [][CreateProprietario \/ SaveProprietario \/ DeleteProprietario]_vars

\* C16: after any sequence of TurnoProprietario saves and deletes, the durata
\* of every Turno is the sum of tempo over the TurnoProprietario rows that
\* reference it (zero when there are none), also after a saved row was moved
\* from one Turno to another.
C16_DurataIsSum ==
    hpc \in {"models", "done"} =>
        \A turno \in tables.turno :
            turno.durata = SumTempo({r \in tables.tp : r.turno = turno.pk})

----------------------------------------------------------------------------
(* core/management/commands/import_chiamogna.py: Command.handle.  The Ramo  *)
(* of a Giro is kept as a field of the Giro row; a time that _parse_hhmmss  *)
(* rejects is the duration -1.                                              *)

MaxRows == 3

\* what the database holds before the command runs
ExistingTables ==
    [persona |-> {1},
     giro    |-> {[pk |-> 2, ramo |-> "BOSCHETTO", tipo |-> "A", ordine |-> 1]},
     turno   |-> {[pk |-> 3, giro |-> 2, ordine |-> 60, utilizzatore |-> 1, durata |-> 60]},
     tp      |-> {[pk |-> 4, turno |-> 3, proprietario |-> 1, tempo |-> 60]},
     next    |-> 5]

\* the command line and the source database: the rows of giro have the ids
\* 10, 11, ... in the order of the query; persona 3 is referenced and missing
ImportInit ==
    /\ LET GiroRow == [ramo_bealera : {"BOSCHETTO"}, tipo_giro : {"A"}, ordine : {30, 60, 61},
                       id_utilizzatore : {1}]
                      \cup [ramo_bealera : {"VARDA"}, tipo_giro : {"B"}, ordine : {30, 60, 61},
                            id_utilizzatore : {1}]
                      \cup {[ramo_bealera |-> "BOSCHETTO", tipo_giro |-> "A", ordine |-> 60,
                             id_utilizzatore |-> 3]}
           GiroRows == UNION {[1..n -> GiroRow] : n \in 0..MaxRows}
           Ruolo(giro, utente, tempo) ==
               [id_giro |-> giro, id_utente |-> utente, intervallo_tempo |-> tempo]
           RuoloRows == {<<Ruolo(10, 1, 60), Ruolo(10, 2, 90)>>,
                         <<Ruolo(10, 1, 60), Ruolo(10, 1, 90)>>,
                         <<Ruolo(11, 2, 90), Ruolo(10, 3, 60)>>,
                         <<Ruolo(10, 1, -1)>>,
                         <<Ruolo(10, 1, 60), Ruolo(10, 2, -1)>>}
           Read == {[persone_rows |-> {1, 2},
                     giro_rows    |-> [k \in DOMAIN rows |-> [id |-> 9 + k] @@ rows[k]],
                     ruolo_rows   |-> ruoli] : rows \in GiroRows, ruoli \in RuoloRows}
           Sample == [persone_rows |-> {1, 2},
                      giro_rows    |-> <<[id |-> 10, ramo_bealera |-> "VARDA", tipo_giro |-> "B",
                                          ordine |-> 30, id_utilizzatore |-> 1]>>,
                      ruolo_rows   |-> <<>>]
       IN  \/ /\ options \in [source_exists : {TRUE}, source_is_file : {TRUE},
                              consorzio_name : {"Chiamogna"}, no_reset : BOOLEAN]
              /\ legacy \in Read
           \/ /\ options \in [source_exists : {TRUE}, source_is_file : {TRUE},
                              consorzio_name : {"  "}, no_reset : BOOLEAN]
                             \cup [source_exists : {FALSE}, source_is_file : {FALSE},
                                   consorzio_name : {"Chiamogna"}, no_reset : BOOLEAN]
                             \cup [source_exists : {TRUE}, source_is_file : {FALSE},
                                   consorzio_name : {"Chiamogna"}, no_reset : BOOLEAN]
              /\ legacy \in {NoRows, Sample}
    /\ tables = ExistingTables /\ locals = NoLocals /\ hpc = "handle"
    /\ SplitIdle /\ ConvertIdle /\ LoadIdle /\ StripIdle

\* the head of the loops of lines 163 and 212: where handle goes on
Phase(giro_pos, ruolo_pos) ==
    IF giro_pos < Len(legacy.giro_rows) THEN "giro_rows"
    ELSE IF ruolo_pos < Len(legacy.ruolo_rows) THEN "ruolo_rows"
    ELSE "report"

\* an exception that leaves handle with the writes done so far in place
AbortKeepingWrites(error) ==
    /\ locals' = [locals EXCEPT !.error = error]
    /\ hpc' = "raised"
    /\ UNCHANGED <<options, legacy, tables, othersOfDjango>>

\* an exception inside transaction.atomic(): the transaction is rolled back
Abort(error) ==
    /\ tables' = locals.before
    /\ locals' = [locals EXCEPT !.error = error]
    /\ hpc' = "raised"
    /\ UNCHANGED <<options, legacy, othersOfDjango>>

\* lines 52-61 placed after the reset
HandleValidateAfterReset ==
    /\ hpc = "handle"
    /\ tables' = IF options.no_reset THEN tables ELSE [NoTables EXCEPT !.next = tables.next]
    /\ IF ~options.source_exists \/ ~options.source_is_file
       THEN hpc' = "raised" /\ locals' = [locals EXCEPT !.error = "Source database not found"]
       ELSE IF StripStr(options.consorzio_name) = ""
       THEN hpc' = "raised" /\ locals' = [locals EXCEPT !.error = "--consorzio-name cannot be empty"]
       ELSE hpc' = "transaction" /\ UNCHANGED locals
    /\ UNCHANGED <<options, legacy, othersOfDjango>>

\* lines 52-61: the source is a file and the name is not blank, or CommandError
HandleValidate ==
    /\ hpc = "handle"
    /\ IF ~options.source_exists \/ ~options.source_is_file
       THEN hpc' = "raised" /\ locals' = [locals EXCEPT !.error = "Source database not found"]
       ELSE IF StripStr(options.consorzio_name) = ""
       THEN hpc' = "raised" /\ locals' = [locals EXCEPT !.error = "--consorzio-name cannot be empty"]
       ELSE hpc' = "transaction" /\ UNCHANGED locals
    /\ UNCHANGED <<options, legacy, tables, othersOfDjango>>

\* lines 63-154: the rows are read, the transaction opens, the reset deletes
\* every row, then the Persona rows and the Giro rows are created
HandleBegin ==
    /\ hpc = "transaction"
    /\ LET base    == IF options.no_reset THEN tables
                      ELSE [NoTables EXCEPT !.next = tables.next]
           ids     == legacy.persone_rows
           persone == [id \in ids |-> base.next + Cardinality({x \in ids : x < id})]
           first   == base.next + Cardinality(ids)
           rows    == legacy.giro_rows
           keys    == {<<rows[k].ramo_bealera, rows[k].tipo_giro>> : k \in DOMAIN rows}
           Before(a, b) == a[1] = "BOSCHETTO" /\ b[1] = "VARDA"
           giri    == [key \in keys |-> first + Cardinality({x \in keys : Before(x, key)})]
       IN  /\ tables' = [base EXCEPT
                  !.persona = @ \cup {persone[id] : id \in ids},
                  !.giro    = @ \cup {[pk |-> giri[key], ramo |-> key[1], tipo |-> key[2],
                                       ordine |-> IF key[2] = "A" THEN 1 ELSE 2] : key \in keys},
                  !.next    = first + Cardinality(keys)]
           /\ locals' = [locals EXCEPT !.before = tables,
                                       !.legacy_persona_to_new = persone,
                                       !.giro_map = giri]
    /\ hpc' = Phase(0, 0)
    /\ UNCHANGED <<options, legacy, othersOfDjango>>

\* lines 191-193 without the loop: one step up when the ordine is taken
FreeOrdineOneStep(requested, used_ordini) ==
    IF requested \in used_ordini THEN requested + 1 ELSE requested

\* lines 191-193: the first ordine from the requested one up that is not used
RECURSIVE FreeOrdine(_, _)
FreeOrdine(requested, used_ordini) ==
    IF requested \in used_ordini THEN FreeOrdine(requested + 1, used_ordini) ELSE requested

\* lines 163-207: one row of giro becomes a Turno, or is skipped
HandleGiroRow ==
    /\ hpc = "giro_rows"
    /\ LET row   == legacy.giro_rows[locals.giro_pos + 1]
           key   == <<row.ramo_bealera, row.tipo_giro>>
           onward == Phase(locals.giro_pos + 1, 0)
       IN  IF \/ row.id_utilizzatore \notin DOMAIN locals.legacy_persona_to_new
              \/ key \notin DOMAIN locals.giro_map
           THEN /\ locals' = [locals EXCEPT !.giro_pos = @ + 1]
                /\ hpc' = onward
                /\ UNCHANGED <<options, legacy, tables, othersOfDjango>>
           ELSE LET giro   == locals.giro_map[key]
                    used_ordini == IF giro \in DOMAIN locals.used_ordini_by_giro
                                   THEN locals.used_ordini_by_giro[giro] ELSE {}
                    ordine == FreeOrdine(row.ordine, used_ordini)
                    turno  == [pk |-> tables.next, giro |-> giro, ordine |-> ordine,
                               utilizzatore |-> locals.legacy_persona_to_new[row.id_utilizzatore],
                               durata |-> 0]
                IN  IF \E r \in tables.turno : r.giro = giro /\ r.ordine = ordine
                    THEN Abort("UNIQUE constraint failed: core_turno.giro_id, core_turno.ordine")
                    ELSE /\ tables' = [tables EXCEPT !.turno = @ \cup {turno}, !.next = @ + 1]
                         /\ locals' = [locals EXCEPT
                                !.giro_pos = @ + 1,
                                !.used_ordini_by_giro = (giro :> (used_ordini \cup {ordine})) @@ @,
                                !.legacy_giro_to_turno = (row.id :> turno.pk) @@ @]
                         /\ hpc' = onward
                         /\ UNCHANGED <<options, legacy, othersOfDjango>>

\* lines 212-246: one row of ruolo becomes a TurnoProprietario, or is skipped
HandleRuoloRow ==
    /\ hpc = "ruolo_rows"
    /\ LET row    == legacy.ruolo_rows[locals.ruolo_pos + 1]
           onward == Phase(locals.giro_pos, locals.ruolo_pos + 1)
       IN  IF row.intervallo_tempo < 0 THEN Abort("Invalid time format")
           ELSE IF \/ row.id_giro \notin DOMAIN locals.legacy_giro_to_turno
                   \/ row.id_utente \notin DOMAIN locals.legacy_persona_to_new
           THEN /\ locals' = [locals EXCEPT !.ruolo_pos = @ + 1]
                /\ hpc' = onward
                /\ UNCHANGED <<options, legacy, tables, othersOfDjango>>
           ELSE LET instance == [pk |-> 0,
                                 turno |-> locals.legacy_giro_to_turno[row.id_giro],
                                 proprietario |-> locals.legacy_persona_to_new[row.id_utente],
                                 tempo |-> row.intervallo_tempo]
                IN  IF ProprietarioClash(tables, instance)
                    THEN Abort("UNIQUE constraint failed: core_turnoproprietario")
                    ELSE /\ tables' = TurnoProprietarioSave(tables, instance)
                         /\ locals' = [locals EXCEPT !.ruolo_pos = @ + 1]
                         /\ hpc' = onward
                         /\ UNCHANGED <<options, legacy, othersOfDjango>>

\* lines 248-278: the report; the transaction commits
HandleReport ==
    /\ hpc = "report"
    /\ hpc' = "done"
    /\ UNCHANGED <<options, legacy, tables, locals, othersOfDjango>>

SpecImport ==
    ImportInit /\ [][HandleValidate \/ HandleBegin \/ HandleGiroRow \/ HandleRuoloRow
                       \/ HandleReport]_vars

\* the rows of giro taken so far that became a Turno
ImportedRows ==
    {k \in 1..locals.giro_pos : legacy.giro_rows[k].id \in DOMAIN locals.legacy_giro_to_turno}

\* the Turno made from the k-th row of giro
TurnoOfRow(k) ==
    CHOOSE r \in tables.turno : r.pk = locals.legacy_giro_to_turno[legacy.giro_rows[k].id]

SameGiro(k, m) ==
    /\ legacy.giro_rows[k].ramo_bealera = legacy.giro_rows[m].ramo_bealera
    /\ legacy.giro_rows[k].tipo_giro = legacy.giro_rows[m].tipo_giro

\* C17: the rows of giro are taken in id order; a row whose requested ordine
\* is free in its Giro keeps it, a row whose ordine is taken gets the smallest
\* integer above it that is not used in that Giro; no two imported Turno of a
\* Giro share an ordine, and the database never refuses a Turno for one.
C17_OrdineUnique ==
    /\ locals.error # "UNIQUE constraint failed: core_turno.giro_id, core_turno.ordine"
    /\ hpc \in {"giro_rows", "ruolo_rows", "report", "done"} =>
        /\ \A k \in ImportedRows :
              LET requested == legacy.giro_rows[k].ordine
                  earlier   == {TurnoOfRow(m).ordine :
                                   m \in {x \in ImportedRows : x < k /\ SameGiro(x, k)}}
                  ordine    == TurnoOfRow(k).ordine
              IN  IF requested \notin earlier THEN ordine = requested
                  ELSE /\ ordine > requested
                       /\ ordine \notin earlier
                       /\ \A o \in (requested + 1)..(ordine - 1) : o \in earlier
        /\ \A k, m \in ImportedRows :
              (k # m /\ TurnoOfRow(k).giro = TurnoOfRow(m).giro)
                  => TurnoOfRow(k).ordine # TurnoOfRow(m).ordine

C17_Witness ==
    /\ hpc = "done"
    /\ Len(legacy.giro_rows) = 3
    /\ \A k \in 1..3 : legacy.giro_rows[k].tipo_giro = "A" /\ legacy.giro_rows[k].id_utilizzatore = 1
    /\ <<legacy.giro_rows[1].ordine, legacy.giro_rows[2].ordine, legacy.giro_rows[3].ordine>>
          = <<30, 60, 60>>
    /\ <<TurnoOfRow(1).ordine, TurnoOfRow(2).ordine, TurnoOfRow(3).ordine>> = <<30, 60, 61>>

\* C18: with a source path that does not exist or is not a file the command
\* fails with CommandError and the database is as it was: no record deleted,
\* none created.
C18_MissingSourceTouchesNothing ==
    (~options.source_exists \/ ~options.source_is_file) =>
        /\ tables = ExistingTables
        /\ hpc \in {"handle", "raised"}
        /\ hpc = "raised" => locals.error = "Source database not found"

C18_Witness ==
    /\ hpc = "raised"
    /\ ~options.source_exists /\ ~options.no_reset
    /\ locals.error = "Source database not found"
    /\ tables.turno # {} /\ tables = ExistingTables

----------------------------------------------------------------------------
(* Further properties of import_dump *)

\* C22: the loader is linear, OPEN -> STREAMING -> COMMITTED or ROLLED_BACK:
\* the database file takes effects once, at the commit that follows the last
\* statement of a run without failure; after the first failure nothing more
\* is executed or counted and nothing is committed; every run that reached
\* the loop ends in exactly one of commit and rollback, and then stops.
C22_LinearLoader ==
    [][/\ lpc \notin {"returned", "raised"}
       /\ database' # database =>
             /\ lpc = "loop" /\ index = Len(statements) /\ lpc' = "returned"
       /\ lpc' = "returned" =>
             /\ lpc = "loop" /\ index = Len(statements)
             /\ \A i \in 1..Len(journal) : journal[i].outcome # "failed"
             /\ ~conn'.open
       /\ lpc' = "raised" =>
             /\ lpc = "body"
             /\ executed' = executed /\ skipped' = skipped /\ database' = database
             /\ ~conn'.open /\ conn'.pending = <<>>]_vars

\* a statement of the form USE <identifier>: the keyword in any case,
\* whitespace, the identifier (no whitespace, quote or semicolon in it) with
\* an optional backtick or double quote on either side, an optional
\* semicolon.  <<identifier>>, or <<>> for any other statement
UseIdentifier(str) ==
    LET s      == Strip(S(str))
        n      == Len(s)
        quotes == {BT, "\""}
        spans  == {ab \in (5..n) \X (5..n) :
                     /\ ab[1] <= ab[2]
                     /\ \A k \in ab[1]..ab[2] : s[k] \notin quotes \cup {";"} /\ ~IsSpace(s[k])
                     /\ \E q \in {0, 1} :
                           /\ ab[1] - q >= 5
                           /\ q = 1 => s[ab[1] - 1] \in quotes
                           /\ \A k \in 4..(ab[1] - 1 - q) : IsSpace(s[k])
                     /\ \E c \in {0, 1}, m \in {0, 1} :
                           /\ ab[2] + c <= n - m
                           /\ c = 1 => s[ab[2] + 1] \in quotes
                           /\ m = 1 => s[n] = ";"
                           /\ \A k \in (ab[2] + 1 + c)..(n - m) : IsSpace(s[k])}
    IN  IF n < 5 \/ Upper(SubSeq(s, 1, 3)) # S("USE") \/ spans = {} THEN <<>>
        ELSE LET ab == CHOOSE x \in spans : TRUE
             IN  <<Str(SubSeq(s, ab[1], ab[2]))>>

\* the schema of the nearest USE <identifier> among the first n statements
RECURSIVE NearestUse(_, _)
NearestUse(stmts, n) ==
    IF n = 0 THEN <<>>
    ELSE IF UseIdentifier(stmts[n]) # <<>> THEN UseIdentifier(stmts[n])
    ELSE NearestUse(stmts, n - 1)

\* C23: the active schema is changed only by a statement of the form
\* USE <identifier> and keeps its value until the next one; the statements are
\* taken in source order, and the filter decision on a statement uses the
\* schema of the nearest USE before it, a USE under an excluded schema included.
C23_NearestUseGoverns ==
    /\ active_schema = NearestUse(statements, Len(journal))
    /\ \A i \in 1..Len(journal) :
          LET schema   == NearestUse(statements, i - 1)
              unwanted == /\ schema # <<>> /\ ~include_schemas.is_none
                          /\ schema[1] \notin include_schemas.names
              system   == /\ schema # <<>> /\ exclude_system_schemas
                          /\ schema[1] \in SYSTEM_SCHEMAS
              outcome  == journal[i].outcome
          IN  /\ journal[i].index = i /\ journal[i].sql = statements[i]
              /\ outcome = "use" <=> UseIdentifier(statements[i]) # <<>>
              /\ outcome = "skip_schema" => unwanted
              /\ outcome = "skip_system" => system
              /\ outcome \in {"executed", "failed"} => ~unwanted /\ ~system

C23_Witness ==
    /\ lpc = "returned"
    /\ include_schemas.names = {"chiamogna", "mysql", "sys"}
    /\ statements = <<UseOtherDb, InsertRow, CreateTable, UseChiamogna, InsertRow>>
    /\ journal[3].outcome = "skip_schema"
    /\ journal[4].outcome = "use"
    /\ journal[5].outcome = "executed"
    /\ active_schema = <<"chiamogna">>

\* C24: while no USE statement has been seen, neither the inclusion set nor
\* the system-schema exclusion filters anything: every statement the
\* classifier does not skip is passed to the engine, whatever the inclusion set.
C24_NoSchemaNoFilter ==
    \A i \in 1..Len(journal) :
        NearestUse(statements, i - 1) = <<>> =>
            /\ journal[i].outcome \in {"use", "skip_converted", "executed", "failed"}
            /\ journal[i].outcome = "skip_converted" =>
                  convert_statement(S(statements[i])) \in {None, <<>>}

C24_Witness ==
    /\ lpc = "returned"
    /\ include_schemas = DefaultIncludeSchemas /\ exclude_system_schemas
    /\ statements = <<InsertRow, InsertRow, UseOtherDb>>
    /\ journal[1].outcome = "executed" /\ journal[2].outcome = "executed"
    /\ executed = 2 /\ skipped = 1

\* ---------------------------------------------------------------------
\* Further properties of split_sql_statements
\* ---------------------------------------------------------------------

\* C25: the escape flag lasts exactly one character.  The flag is up exactly
\* when the character just read is a backslash that is not itself escaped;
\* the character read while the flag is up changes no quoting mode and ends
\* no statement, in normal state as inside a quoted region, and leaves the
\* flag down, so that an escaped backslash escapes nothing.
C25_EscapeOneCharacter ==
    [][
       /\ spc = "scan" /\ pos > 0 =>
              (scan.escape <=> /\ SubSeq(sql_text, pos, pos) = "\\"
                               /\ ~Escaped(sql_text, pos))
       /\ spc = "scan" /\ spc' = "scan" /\ pos' = pos + 1 /\ scan.escape =>
              /\ OpenModes(scan') = OpenModes(scan)
              /\ scan'.statements = scan.statements
              /\ scan'.current = scan.current \o SubSeq(sql_text, pos', pos')
              /\ ~scan'.escape
      ]_vars

\* an escaped semicolon in normal state has been read without ending the
\* statement, and an escaped backslash has let the quote after it close
C25_Witness ==
    \/ /\ spc = "returned" /\ sql_text = "\\;a;"
       /\ scan.statements = <<"\\;a;">>
    \/ /\ spc = "returned" /\ sql_text = "'\\\\';"
       /\ scan.statements = <<"'\\\\';">>

\* C26: the four lexical states exclude one another: at every step of the
\* scan, and in the record the scan returns with, at most one of in_single,
\* in_double and in_backtick is set, and the one set, if any, is the mode the
\* reference lexer is in.
C26_OneModeAtATime ==
    spc \in {"scan", "returned"} =>
        /\ Cardinality(OpenModes(scan)) <= 1
        /\ OpenModes(scan) = {RefMode(sql_text, pos)} \ {"normal"}

\* a backtick region holding a quote of each other kind is still the only
\* region open
C26_Witness ==
    /\ spc = "scan" /\ pos = 3
    /\ sql_text = "~'\""
    /\ OpenModes(scan) = {"backtick"}

\* the semicolons the reference lexer meets in normal mode, unescaped
TopSemicolons(text) ==
    {i \in 1..Len(text) : /\ SubSeq(text, i, i) = ";"
                          /\ ~Escaped(text, i)
                          /\ RefMode(text, i - 1) = "normal"}

\* the split point before position i: the last top-level semicolon before
\* it, or the start of the text
SplitPointBefore(text, i) ==
    LET earlier == {j \in TopSemicolons(text) : j < i}
    IN  IF earlier = {} THEN 0
        ELSE CHOOSE j \in earlier : \A k \in earlier : k <= j

\* the text between the split point before the semicolon at i and that
\* semicolon
SegmentBefore(text, i) == SubSeq(text, SplitPointBefore(text, i) + 1, i - 1)

\* the text after the last top-level semicolon
Leftover(text) == SubSeq(text, SplitPointBefore(text, Len(text) + 1) + 1, Len(text))

\* C27: empty statements are dropped: a top-level semicolon with only
\* whitespace between it and the split point before it produces no statement,
\* so that the statements returned are as many as the top-level semicolons
\* with something before them, and the leftover if it is not blank.
C27_EmptyStatementsDropped ==
    spc = "returned" =>
        Len(scan.statements) =
            Cardinality({i \in TopSemicolons(sql_text) :
                            StripStr(SegmentBefore(sql_text, i)) # ""})
            + (IF StripStr(Leftover(sql_text)) # "" THEN 1 ELSE 0)

EndsWithSemicolon(str) == Len(str) > 0 /\ SubSeq(str, Len(str), Len(str)) = ";"

\* C28: the text after the last top-level semicolon is returned as one
\* final statement, trimmed, when it is not blank, and adds nothing when it
\* is; the statements emitted before it, during the scan, all end with their
\* semicolon.
C28_LeftoverIsFinalStatement ==
    [][
       /\ spc = "scan" =>
              \A i \in 1..Len(scan.statements) : EndsWithSemicolon(scan.statements[i])
       /\ spc = "scan" /\ spc' = "returned" =>
              LET leftover == StripStr(Leftover(sql_text))
              IN  scan'.statements = IF leftover # ""
                                     THEN Append(scan.statements, leftover)
                                     ELSE scan.statements
      ]_vars

\* a leftover with whitespace around it after one statement, and a blank
\* leftover after another
C28_Witness ==
    \/ /\ spc = "returned" /\ sql_text = "a; a "
       /\ scan.statements = <<"a;", "a">>
    \/ /\ spc = "returned" /\ sql_text = "a;  "
       /\ scan.statements = <<"a;">>

\* C29: foreign-key enforcement is off for the whole load: it is off, and
\* the transaction open, before the first statement of the dump is taken,
\* and it is off at every step of the loop, up to the commit or the
\* rollback that ends the run.
C29_ForeignKeysOffThroughout ==
    /\ lpc = "loop" /\ index = 0 => conn.foreign_keys = "OFF" /\ conn.in_transaction
                                   /\ journal = <<>>
    /\ lpc \in {"loop", "body"} => conn.foreign_keys = "OFF"

\* the positions of text whose character the splitter trims away: whitespace
\* with nothing but whitespace between it and the split point before it (or
\* the start of the text), and whitespace with nothing but whitespace
\* between it and the end of the text
TrimmedPositions(text) ==
    {p \in 1..Len(text) :
        /\ IsSpace(SubSeq(text, p, p))
        /\ \/ \A q \in (SplitPointBefore(text, p) + 1)..p : IsSpace(SubSeq(text, q, q))
           \/ /\ \A q \in p..Len(text) : IsSpace(SubSeq(text, q, q))
              /\ \A i \in TopSemicolons(text) : i < p}

\* the first n characters of text without the trimmed ones
RECURSIVE Untrimmed(_, _)
Untrimmed(text, n) ==
    IF n = 0 THEN ""
    ELSE Untrimmed(text, n - 1)
           \o (IF n \in TrimmedPositions(text) THEN "" ELSE SubSeq(text, n, n))

NonSpace(str) == SelectSeq(S(str), LAMBDA c : ~IsSpace(c))

\* C30: the splitter loses and invents nothing: the statements returned,
\* put end to end, are the input without the whitespace around its split
\* points, so that the characters that are not whitespace are those of the
\* input, each once and in the order of the input.
C30_NothingLostOrInvented ==
    spc = "returned" =>
        /\ JoinWith(scan.statements, "") = Untrimmed(sql_text, Len(sql_text))
        /\ NonSpace(JoinWith(scan.statements, "")) = NonSpace(sql_text)

\* whitespace trimmed after a split point, and kept inside a statement
C30_Witness ==
    /\ spc = "returned" /\ sql_text = "a ; a"
    /\ scan.statements = <<"a ;", "a">>

\* ---------------------------------------------------------------------
\* String values on their way to the loader
\* ---------------------------------------------------------------------

\* the characters of text from position i on that lie inside a quoted
\* region, the quotes that open and close the regions left out; mode is the
\* mode of the reference lexer before position i
RECURSIVE QuotedFrom(_, _, _)
QuotedFrom(text, i, mode) ==
    IF i > Len(text) THEN ""
    ELSE LET ch    == SubSeq(text, i, i)
             after == IF Escaped(text, i) \/ ch \notin QuoteChars THEN mode
                      ELSE IF mode = "normal" THEN ModeOfQuote(ch)
                      ELSE IF mode = ModeOfQuote(ch) THEN "normal"
                      ELSE mode
         IN  (IF mode # "normal" /\ after # "normal" THEN ch ELSE "")
                \o QuotedFrom(text, i + 1, after)

QuotedContent(text) == QuotedFrom(text, 1, "normal")

\* the statements are those of the dump, stripped and split, and no
\* statement has been taken yet
JustRead == lpc = "loop" /\ index = 0

\* C31: what the dump holds between quotes reaches the loader as it is: the
\* quoted content of the statements import_dump iterates over, taken in
\* order, is the quoted content of the dump, so that no line of a value
\* written over several lines has been removed by strip_comment_lines.
C31_QuotedContentIntact ==
    JustRead =>
        JoinWith([i \in 1..Len(statements) |-> QuotedContent(statements[i])], "")
            = QuotedContent(raw_text)

\* ---------------------------------------------------------------------
\* A failure of import_chiamogna inside its transaction
\* ---------------------------------------------------------------------

\* the errors raised after the transaction was opened
ErrorsInTransaction ==
    {"Invalid time format",
     "UNIQUE constraint failed: core_turno.giro_id, core_turno.ordine",
     "UNIQUE constraint failed: core_turnoproprietario"}

\* C32: when the command fails after it has started writing, the database is
\* what it was before the command ran: the rows the reset deleted are back,
\* the rows created up to the failure are gone, and the next primary key is
\* the one it was.
C32_FailureRollsBackEverything ==
    (hpc = "raised" /\ locals.error \in ErrorsInTransaction) =>
        /\ tables = ExistingTables
        /\ locals.before = ExistingTables

\* a run with the reset that created a Turno and a TurnoProprietario and then
\* met a ruolo row whose intervallo_tempo is not a time
C32_Witness ==
    /\ hpc = "raised" /\ locals.error = "Invalid time format"
    /\ ~options.no_reset
    /\ locals.legacy_giro_to_turno # <<>>
    /\ locals.ruolo_pos = 1
    /\ legacy.ruolo_rows[1].id_giro \in DOMAIN locals.legacy_giro_to_turno
    /\ tables = ExistingTables

====
